---- MODULE Spec2Model ----
(***************************************************************************)
(* Chord / melody analyzer with 21-mode matching (ai-gen_v2.py) and its    *)
(* interactive command loop.                                               *)
(*                                                                         *)
(* Representation.  A Python str is a sequence of one-character strings,   *)
(* so that strip, split, lower, slicing and substring tests are computed   *)
(* as the code computes them.  The three non-ASCII characters the code     *)
(* handles are written "U+266D" (flat sign), "U+266F" (sharp sign) and     *)
(* "U+2206" (delta); each stands for one character.  A Python list is a    *)
(* sequence, so Python index i is position i+1 here.  A Python list that   *)
(* is built by iterating over a set (missing_core, missing_extra) is kept  *)
(* as the set of its elements.  The float scores are kept as exact         *)
(* fractions <<numerator, denominator>>.  A function that can raise        *)
(* returns a record whose field exc names the exception class ("None"      *)
(* when it returns normally).                                              *)
(***************************************************************************)
EXTENDS Integers, Sequences, FiniteSets, TLC

VARIABLES pc, DEBUG, MODE_CATALOG, line, printed, args, ret, snapshot

\* pc           where the process is: "prompt" (waiting in input()), "read" (input()
\*              has returned line, the loop body runs next), "done" (main
\*              returned), "crashed" (an exception left main), "imported"
\*              (the module is used as a library, main does not run), or,
\*              when one function is called on its own, the name of that
\*              function (args holds its arguments, ret what it returned)
\* DEBUG        the module global DEBUG
\* MODE_CATALOG the module global MODE_CATALOG
\* line         the text input() returned last
\* printed      what the handling of that line printed
\* args, ret    the arguments and the outcome of the call of
\*              analyze_chord_and_melody made last (for the loop: while handling
\*              line; exc = "NoCall" when it made none)
\* snapshot     results of earlier calls, kept for comparison
vars == <<pc, DEBUG, MODE_CATALOG, line, printed, args, ret, snapshot>>

(***************************************************************************)
(* str primitives                                                          *)
(***************************************************************************)
FLAT_SIGN == "U+266D"
SHARP_SIGN == "U+266F"
DELTA_SIGN == "U+2206"

UPPERS == <<"A","B","C","D","E","F","G","H","I","J","K","L","M",
            "N","O","P","Q","R","S","T","U","V","W","X","Y","Z">>
LOWERS == <<"a","b","c","d","e","f","g","h","i","j","k","l","m",
            "n","o","p","q","r","s","t","u","v","w","x","y","z">>

upper_char(c) ==
    IF \E i \in 1..26 : LOWERS[i] = c
    THEN UPPERS[CHOOSE i \in 1..26 : LOWERS[i] = c]
    ELSE c

lower_char(c) ==
    IF \E i \in 1..26 : UPPERS[i] = c
    THEN LOWERS[CHOOSE i \in 1..26 : UPPERS[i] = c]
    ELSE c

upper(s) == [i \in 1..Len(s) |-> upper_char(s[i])]

lower(s) == [i \in 1..Len(s) |-> lower_char(s[i])]

isspace(c) == c \in {" ", "\t"}

RECURSIVE lstrip(_)
lstrip(s) ==
    IF s # <<>> /\ isspace(Head(s)) THEN lstrip(Tail(s)) ELSE s

RECURSIVE rstrip(_)
rstrip(s) ==
    IF s # <<>> /\ isspace(s[Len(s)]) THEN rstrip(SubSeq(s, 1, Len(s) - 1)) ELSE s

strip(s) == rstrip(lstrip(s))

\* s.replace(FLAT_SIGN, "b").replace(SHARP_SIGN, "#")
replace_accidentals(s) ==
    [i \in 1..Len(s) |->
        IF s[i] = FLAT_SIGN THEN "b" ELSE IF s[i] = SHARP_SIGN THEN "#" ELSE s[i]]

\* Python: pat in s
contains(s, pat) ==
    \E i \in 1..(Len(s) - Len(pat) + 1) : SubSeq(s, i, i + Len(pat) - 1) = pat

startswith(s, pat) ==
    Len(s) >= Len(pat) /\ SubSeq(s, 1, Len(pat)) = pat

\* position of the first occurrence of character c in s, 0 when absent
find_char(s, c) ==
    IF \E i \in 1..Len(s) : s[i] = c
    THEN CHOOSE i \in 1..Len(s) : s[i] = c /\ \A j \in 1..(i - 1) : s[j] # c
    ELSE 0

\* s.split(c) for a one-character separator: empty pieces are kept
RECURSIVE split_on(_, _)
split_on(s, c) ==
    LET k == find_char(s, c) IN
    IF k = 0 THEN <<s>>
    ELSE <<SubSeq(s, 1, k - 1)>> \o split_on(SubSeq(s, k + 1, Len(s)), c)

\* s.split(): runs of whitespace separate, no empty pieces
RECURSIVE split_ws(_)
split_ws(s) ==
    LET t == lstrip(s) IN
    IF t = <<>> THEN <<>>
    ELSE LET k == IF \E i \in 1..Len(t) : isspace(t[i])
                  THEN CHOOSE i \in 1..Len(t) :
                           isspace(t[i]) /\ \A j \in 1..(i - 1) : ~isspace(t[j])
                  ELSE Len(t) + 1
         IN <<SubSeq(t, 1, k - 1)>> \o split_ws(SubSeq(t, k, Len(t)))

(***************************************************************************)
(* Constants of ai-gen_v2.py                                               *)
(***************************************************************************)
GLOBAL_KEY == <<"G">>

NOTE_TO_PC ==
    (<<"C">> :> 0) @@ (<<"B","#">> :> 0) @@
    (<<"C","#">> :> 1) @@ (<<"D","b">> :> 1) @@
    (<<"D">> :> 2) @@
    (<<"D","#">> :> 3) @@ (<<"E","b">> :> 3) @@
    (<<"E">> :> 4) @@ (<<"F","b">> :> 4) @@
    (<<"F">> :> 5) @@ (<<"E","#">> :> 5) @@
    (<<"F","#">> :> 6) @@ (<<"G","b">> :> 6) @@
    (<<"G">> :> 7) @@
    (<<"G","#">> :> 8) @@ (<<"A","b">> :> 8) @@
    (<<"A">> :> 9) @@
    (<<"A","#">> :> 10) @@ (<<"B","b">> :> 10) @@
    (<<"B">> :> 11) @@ (<<"C","b">> :> 11)

MAJOR_INTERVALS == <<0, 2, 4, 5, 7, 9, 11>>

DEGREE_LABELS ==
    (0 :> "1") @@ (1 :> "b2") @@ (2 :> "2") @@ (3 :> "b3") @@ (4 :> "3") @@
    (5 :> "4") @@ (6 :> "b5") @@ (7 :> "5") @@ (8 :> "#5") @@ (9 :> "6") @@
    (10 :> "b7") @@ (11 :> "7")

ROMANS ==
    (1 :> <<"I">>) @@ (2 :> <<"I","I">>) @@ (3 :> <<"I","I","I">>) @@
    (4 :> <<"I","V">>) @@ (5 :> <<"V">>) @@ (6 :> <<"V","I">>) @@
    (7 :> <<"V","I","I">>)

major_modes == <<
    <<"Ionian (major)",          <<0, 2, 4, 5, 7, 9, 11>> >>,
    <<"Dorian",                  <<0, 2, 3, 5, 7, 9, 10>> >>,
    <<"Phrygian",                <<0, 1, 3, 5, 7, 8, 10>> >>,
    <<"Lydian",                  <<0, 2, 4, 6, 7, 9, 11>> >>,
    <<"Mixolydian",              <<0, 2, 4, 5, 7, 9, 10>> >>,
    <<"Aeolian (natural minor)", <<0, 2, 3, 5, 7, 8, 10>> >>,
    <<"Locrian",                 <<0, 1, 3, 5, 6, 8, 10>> >> >>

melodic_minor_modes == <<
    <<"Melodic minor",           <<0, 2, 3, 5, 7, 9, 11>> >>,
    <<"Dorian b2",               <<0, 1, 3, 5, 7, 9, 10>> >>,
    <<"Lydian augmented",        <<0, 2, 4, 6, 8, 9, 11>> >>,
    <<"Lydian dominant",         <<0, 2, 4, 6, 7, 9, 10>> >>,
    <<"Mixolydian b6",           <<0, 2, 4, 5, 7, 8, 10>> >>,
    <<"Locrian #2",              <<0, 2, 3, 5, 6, 8, 10>> >>,
    <<"Altered (super locrian)", <<0, 1, 3, 4, 6, 8, 10>> >> >>

harmonic_minor_modes == <<
    <<"Harmonic minor",          <<0, 2, 3, 5, 7, 8, 11>> >>,
    <<"Locrian #6",              <<0, 1, 3, 5, 6, 9, 10>> >>,
    <<"Ionian #5",               <<0, 2, 4, 5, 8, 9, 11>> >>,
    <<"Dorian #4",               <<0, 2, 3, 6, 7, 9, 10>> >>,
    <<"Phrygian dominant",       <<0, 1, 4, 5, 7, 8, 10>> >>,
    <<"Lydian #2",               <<0, 3, 4, 6, 7, 9, 11>> >>,
    <<"Altered diminished",      <<0, 1, 3, 4, 6, 7, 9>> >> >>

\* the entries one pass of the inner loop of _build_catalog appends
family_entries(fam_i, family, modes) ==
    [k \in 1..Len(modes) |->
        [family |-> family, family_rank |-> fam_i, mode_rank |-> k - 1,
         name |-> modes[k][1], intervals |-> modes[k][2]]]

\* the list MODE_CATALOG holds after the module-level call _build_catalog()
build_catalog ==
    family_entries(0, "major", major_modes)
    \o family_entries(1, "melodic_minor", melodic_minor_modes)
    \o family_entries(2, "harmonic_minor", harmonic_minor_modes)

(***************************************************************************)
(* Basic helpers                                                           *)
(***************************************************************************)
\* the name stripped last, after its first character was upper-cased
normalize_note_strip_last(name) ==
    LET s == replace_accidentals(name) IN
    IF s = <<>> THEN s ELSE strip(<<upper_char(s[1])>> \o Tail(s))

normalize_note(name) ==
    LET s == replace_accidentals(strip(name)) IN
    IF s = <<>> THEN s ELSE <<upper_char(s[1])>> \o Tail(s)

\* a bare table lookup raises KeyError for a name the table lacks
note_to_pc_keyerror(name) ==
    IF normalize_note(name) \notin DOMAIN NOTE_TO_PC THEN "KeyError" ELSE "None"

\* the exception class note_to_pc raises for name ("None": it returns)
note_to_pc_exc(name) ==
    IF normalize_note(name) \notin DOMAIN NOTE_TO_PC THEN "ValueError" ELSE "None"

\* the pitch class computed from the letter and the accidental, without
\* reduction to 0..11
note_to_pc_by_letter(name) ==
    LET s == normalize_note(name)
        base == ("C" :> 0) @@ ("D" :> 2) @@ ("E" :> 4) @@ ("F" :> 5) @@ ("G" :> 7)
                @@ ("A" :> 9) @@ ("B" :> 11)
    IN base[s[1]] + (IF Len(s) = 1 THEN 0 ELSE IF s[2] = "#" THEN 1 ELSE -1)

\* the value note_to_pc returns when it does not raise
note_to_pc(name) == NOTE_TO_PC[normalize_note(name)]

\* the message of the ValueError note_to_pc raises: the normalized name follows
\* the fixed text
unknown_note_msg(name) == [text |-> "Unknown note name: ", name |-> normalize_note(name)]

\* the outcome of the call note_to_pc(name)
note_to_pc_call(name) ==
    IF note_to_pc_exc(name) = "None"
    THEN [exc |-> "None", val |-> note_to_pc(name)]
    ELSE [exc |-> note_to_pc_exc(name), msg |-> unknown_note_msg(name)]

\* the intervals taken as pitch classes, without the root
build_scale_unrooted(root_pc, intervals) ==
    [i \in 1..Len(intervals) |-> intervals[i] % 12]

build_scale_from_intervals(root_pc, intervals) ==
    [i \in 1..Len(intervals) |-> (root_pc + intervals[i]) % 12]

build_major_scale_pcs(tonic) ==
    [i \in 1..Len(MAJOR_INTERVALS) |-> (note_to_pc(tonic) + MAJOR_INTERVALS[i]) % 12]

pitch_to_degree_label(note_pc, root_pc) == DEGREE_LABELS[(note_pc - root_pc) % 12]

(***************************************************************************)
(* Chord parsing and required tones                                        *)
(***************************************************************************)
\* the members of the list cands (in its order) that occur in r
present_in(cands, r) == SelectSeq(cands, LAMBDA a : contains(r, a))

\* a root taken as the first character only, whatever follows it
split_root_one_letter(s) == <<SubSeq(s, 1, 1), SubSeq(s, 2, Len(s))>>

\* root letter + optional accidental: <<root, rest>> of the non-empty text s
split_root(s) ==
    IF Len(s) >= 2 /\ s[2] \in {"b", "#"}
    THEN <<SubSeq(s, 1, 2), SubSeq(s, 3, Len(s))>>
    ELSE <<SubSeq(s, 1, 1), SubSeq(s, 2, Len(s))>>

\* quality and the dominant flag, from the lower-cased suffix r
chord_quality(r) ==
    LET is_maj == contains(r, <<"m","a","j">>) \/ contains(r, <<"m","a","7">>)
                  \/ contains(r, <<"m","a","j","7">>) \/ contains(r, <<DELTA_SIGN>>)
        is_min == startswith(r, <<"m">>) \/ contains(r, <<"m","i","n">>)
        quality == IF is_maj THEN "maj" ELSE IF is_min THEN "min" ELSE "maj"
        dominant ==
            /\ \E x \in {<<"7">>, <<"9">>, <<"1","1">>, <<"1","3">>} : contains(r, x)
            /\ ~contains(r, <<"m","a","j">>)
            /\ ~(startswith(r, <<"m">>) \/ contains(r, <<"m","i","n">>))
    IN [quality |-> IF dominant THEN "dom" ELSE quality, dominant |-> dominant]

parse_chord_symbol(symbol) ==
    LET s == replace_accidentals(strip(symbol)) IN
    IF s = <<>>
    THEN [exc |-> "ValueError", msg |-> [text |-> "Empty chord symbol.", name |-> <<>>]]
    ELSE
      LET parts == split_root(s)
          root == normalize_note(parts[1])
          r == lower(parts[2])
          q == chord_quality(r)
      IN [exc |-> "None",
          symbol |-> symbol,
          root |-> root,
          quality |-> q.quality,
          dominant |-> q.dominant,
          alts |-> present_in(<< <<"b","9">>, <<"#","9">>, <<"b","1","3">>,
                                 <<"#","1","1">>, <<"b","5">>, <<"#","5">> >>, r),
          exts |-> present_in(<< <<"1","3">>, <<"1","1">>, <<"9">>, <<"7">> >>, r)]

\* remove duplicates, keeping the first occurrence of each element
RECURSIVE uniq_from(_, _)
uniq_from(xs, seen) ==
    IF xs = <<>> THEN <<>>
    ELSE IF Head(xs) \in seen THEN uniq_from(Tail(xs), seen)
    ELSE <<Head(xs)>> \o uniq_from(Tail(xs), seen \cup {Head(xs)})

uniq(xs) == uniq_from(xs, {})

in_list(x, xs) == \E i \in 1..Len(xs) : xs[i] = x

\* the core listed without the root (a rootless voicing)
chord_core_rootless(ch) ==
    LET q == ch.quality
        exts == ch.exts
        sym == lower(ch.symbol)
    IN IF q = "maj"
       THEN <<4, 7>> \o
            (IF in_list(<<"7">>, exts) \/ contains(sym, <<"m","a","j","7">>)
                \/ contains(sym, <<"m","a","7">>)
             THEN <<11>> ELSE <<>>)
       ELSE IF q = "min"
       THEN <<3, 7>> \o
            (IF in_list(<<"7">>, exts) \/ contains(sym, <<"m","7">>)
             THEN <<10>> ELSE <<>>)
       ELSE <<4, 7, 10>>

\* core: 1 + 3/b3 + 5 + 7/b7 depending on chord quality
chord_core(ch) ==
    LET q == ch.quality
        exts == ch.exts
        sym == lower(ch.symbol)
    IN IF q = "maj"
       THEN <<0, 4, 7>> \o
            (IF in_list(<<"7">>, exts) \/ contains(sym, <<"m","a","j","7">>)
                \/ contains(sym, <<"m","a","7">>)
             THEN <<11>> ELSE <<>>)
       ELSE IF q = "min"
       THEN <<0, 3, 7>> \o
            (IF in_list(<<"7">>, exts) \/ contains(sym, <<"m","7">>)
             THEN <<10>> ELSE <<>>)
       ELSE <<0, 4, 7, 10>>

\* plain extensions, then alterations
chord_extra(ch) ==
    LET exts == ch.exts
        alts == {ch.alts[i] : i \in 1..Len(ch.alts)}
    IN (IF in_list(<<"9">>, exts) THEN <<2>> ELSE <<>>) \o
       (IF in_list(<<"1","1">>, exts) THEN <<5>> ELSE <<>>) \o
       (IF in_list(<<"1","3">>, exts) THEN <<9>> ELSE <<>>) \o
       (IF <<"b","9">> \in alts THEN <<1>> ELSE <<>>) \o
       (IF <<"#","9">> \in alts THEN <<3>> ELSE <<>>) \o
       (IF <<"#","1","1">> \in alts THEN <<6>> ELSE <<>>) \o
       (IF <<"b","1","3">> \in alts THEN <<8>> ELSE <<>>) \o
       (IF <<"b","5">> \in alts THEN <<6>> ELSE <<>>) \o
       (IF <<"#","5">> \in alts THEN <<8>> ELSE <<>>)

\* returns <<core, extra>>
chord_required_semitones(ch) == <<uniq(chord_core(ch)), uniq(chord_extra(ch))>>

(***************************************************************************)
(* Roman numeral in the global major key                                   *)
(***************************************************************************)
\* the first name degree_in_global_major fails to look up: the key (through
\* build_major_scale_pcs) before the chord root; <<>> when it returns
degree_in_global_major_bad(chord_root, global_key) ==
    IF note_to_pc_exc(global_key) # "None" THEN <<global_key>>
    ELSE IF note_to_pc_exc(chord_root) # "None" THEN <<chord_root>>
    ELSE <<>>

\* the position counted from 0, as scale.index(r_pc) alone gives it
degree_zero_based(chord_root, global_key) ==
    LET scale == build_major_scale_pcs(global_key)
        r_pc == note_to_pc(chord_root)
    IN IF \E i \in 1..Len(scale) : scale[i] = r_pc
       THEN (CHOOSE i \in 1..Len(scale) : scale[i] = r_pc) - 1
       ELSE 0

degree_in_global_major(chord_root, global_key) ==
    LET scale == build_major_scale_pcs(global_key)
        r_pc == note_to_pc(chord_root)
    IN IF \E i \in 1..Len(scale) : scale[i] = r_pc
       THEN (CHOOSE i \in 1..Len(scale) :
                 scale[i] = r_pc /\ \A j \in 1..(i - 1) : scale[j] # r_pc)
       ELSE 0

\* the numeral lower-cased for every quality but major
roman_for_degree_lower_unless_major(deg, quality) ==
    IF deg = 0 THEN <<"N","/","A">>
    ELSE IF quality # "maj" THEN lower(ROMANS[deg]) ELSE ROMANS[deg]

roman_for_degree(deg, quality) ==
    IF deg = 0 THEN <<"N","/","A">>
    ELSE IF quality = "min" THEN lower(ROMANS[deg]) ELSE ROMANS[deg]

(***************************************************************************)
(* 21-mode matching engine                                                 *)
(***************************************************************************)
max(a, b) == IF a >= b THEN a ELSE b

min(a, b) == IF a <= b THEN a ELSE b

\* sum of f[i] over i in 1..k
RECURSIVE sum_to(_, _)
sum_to(f, k) == IF k = 0 THEN 0 ELSE f[k] + sum_to(f, k - 1)

\* exact comparison of two fractions with positive denominators
frac_less(a, b) == a[1] * b[2] < b[1] * a[2]

frac_eq(a, b) == a[1] * b[2] = b[1] * a[2]

\* the melody length taken as it is
melody_n_unguarded(melody_pcs) == Len(melody_pcs)

\* n = max(len(melody_pcs), 1)
melody_n(melody_pcs) == max(Len(melody_pcs), 1)

\* the penalty 10.0 and the penalty 2.5 exchanged (2.5 for a missing core
\* tone, 10.0 for a missing extra tone)
mode_match_rank_penalties_swapped(root_pc, core, extra, melody_pcs, mode) ==
    LET scale == build_scale_from_intervals(root_pc, mode.intervals)
        mode_pcs == {scale[i] : i \in 1..Len(scale)}
        core_pcs == {(root_pc + core[i]) % 12 : i \in 1..Len(core)}
        extra_pcs == {(root_pc + extra[i]) % 12 : i \in 1..Len(extra)}
        missing_core == {p \in core_pcs : p \notin mode_pcs}
        missing_extra == {p \in extra_pcs : p \notin mode_pcs}
        n == melody_n(melody_pcs)
        melody_hits == [j \in 1..Len(melody_pcs) |-> melody_pcs[j] \in mode_pcs]
        hit_weight == [j \in 1..Len(melody_pcs) |->
                          IF melody_hits[j] THEN n - (j - 1) ELSE 0]
        melody_num == sum_to(hit_weight, Len(melody_pcs))
        c == Cardinality(core_pcs)
        mc == Cardinality(missing_core)
        e == Cardinality(extra_pcs)
        me == Cardinality(missing_extra)
    IN [mode |-> mode,
        score |-> <<n * (8 * (c - mc) - 5 * mc + 3 * (e - me) - 20 * me)
                      + 2 * melody_num, 2 * n>>,
        missing_core |-> missing_core,
        missing_extra |-> missing_extra,
        melody_score |-> <<melody_num, n>>,
        melody_hits |-> melody_hits]

\* With n = max(len(melody_pcs), 1), weights[i] = (n - i)/n for Python index i,
\* so melody_score = <<sum of the (n - i) of the hits, n>> and
\* score = <<2n*(4c' - 10mc) + n*(3e' - 5me) + 2*(that sum), 2n>>.
mode_match_rank(root_pc, core, extra, melody_pcs, mode) ==
    LET scale == build_scale_from_intervals(root_pc, mode.intervals)
        mode_pcs == {scale[i] : i \in 1..Len(scale)}
        core_pcs == {(root_pc + core[i]) % 12 : i \in 1..Len(core)}
        extra_pcs == {(root_pc + extra[i]) % 12 : i \in 1..Len(extra)}
        missing_core == {p \in core_pcs : p \notin mode_pcs}
        missing_extra == {p \in extra_pcs : p \notin mode_pcs}
        n == melody_n(melody_pcs)
        melody_hits == [j \in 1..Len(melody_pcs) |-> melody_pcs[j] \in mode_pcs]
        hit_weight == [j \in 1..Len(melody_pcs) |->
                          IF melody_hits[j] THEN n - (j - 1) ELSE 0]
        melody_num == sum_to(hit_weight, Len(melody_pcs))
        c == Cardinality(core_pcs)
        mc == Cardinality(missing_core)
        e == Cardinality(extra_pcs)
        me == Cardinality(missing_extra)
    IN [mode |-> mode,
        score |-> <<n * (8 * (c - mc) - 20 * mc + 3 * (e - me) - 5 * me)
                      + 2 * melody_num, 2 * n>>,
        missing_core |-> missing_core,
        missing_extra |-> missing_extra,
        melody_score |-> <<melody_num, n>>,
        melody_hits |-> melody_hits]

\* the sort key taken as (-score, mode_rank, family_rank)
key_less_swapped(x, y) ==
    \/ frac_less(y.score, x.score)
    \/ /\ frac_eq(x.score, y.score)
       /\ \/ x.mode.mode_rank < y.mode.mode_rank
          \/ /\ x.mode.mode_rank = y.mode.mode_rank
             /\ x.mode.family_rank < y.mode.family_rank

\* the sort key (-score, family_rank, mode_rank) of x is smaller than that of y
key_less(x, y) ==
    \/ frac_less(y.score, x.score)
    \/ /\ frac_eq(x.score, y.score)
       /\ \/ x.mode.family_rank < y.mode.family_rank
          \/ /\ x.mode.family_rank = y.mode.family_rank
             /\ x.mode.mode_rank < y.mode.mode_rank

\* list.sort(key=...) is stable: x goes after every element whose key is not
\* greater than its own
RECURSIVE insert_sorted(_, _)
insert_sorted(x, sorted) ==
    IF sorted = <<>> THEN <<x>>
    ELSE IF key_less(x, Head(sorted)) THEN <<x>> \o sorted
    ELSE <<Head(sorted)>> \o insert_sorted(x, Tail(sorted))

RECURSIVE sort_ranked(_, _)
sort_ranked(xs, k) ==
    IF k = 0 THEN <<>> ELSE insert_sorted(xs[k], sort_ranked(xs, k - 1))

\* the local list `ranked` of choose_modes_21 after ranked.sort(...)
ranked_modes(chord_info, melody_pcs) ==
    LET root_pc == note_to_pc(chord_info.root)
        req == chord_required_semitones(chord_info)
        unsorted == [k \in 1..Len(MODE_CATALOG) |->
                        mode_match_rank(root_pc, req[1], req[2], melody_pcs,
                                        MODE_CATALOG[k])]
    IN sort_ranked(unsorted, Len(unsorted))

\* the levels of the debug lines choose_modes_21 prints, in order
choose_modes_21_log(ranked) ==
    (IF DEBUG >= 4 THEN <<4>> ELSE <<>>) \o
    (IF DEBUG >= 5 THEN [k \in 1..min(10, Len(ranked)) |-> 5] ELSE <<>>)

\* the debug loop taking its entries off the list (ranked.pop(0)) instead of
\* reading ranked[k]
choose_modes_21_debug_pops(chord_info, melody_pcs) ==
    LET sorted == ranked_modes(chord_info, melody_pcs)
        ranked == IF DEBUG >= 5 THEN SubSeq(sorted, min(10, Len(sorted)) + 1, Len(sorted))
                  ELSE sorted
    IN [best |-> ranked[1],
        alternatives |-> SubSeq(ranked, 2, min(6, Len(ranked)))]

choose_modes_21(chord_info, melody_pcs) ==
    LET ranked == ranked_modes(chord_info, melody_pcs)
    IN [best |-> ranked[1],
        alternatives |-> SubSeq(ranked, 2, min(6, Len(ranked)))]

\* the catalog list itself sorted (ranked bound to MODE_CATALOG, not a new list)
choose_modes_21_catalog_in_place(chord_info, melody_pcs) ==
    LET ranked == ranked_modes(chord_info, melody_pcs)
    IN [k \in 1..Len(ranked) |-> ranked[k].mode]

\* MODE_CATALOG after a call of choose_modes_21: the call appends the match
\* results to a fresh list and sorts that list; the catalog list and the mode
\* dicts it holds are only read
choose_modes_21_catalog(chord_info, melody_pcs) == MODE_CATALOG

(***************************************************************************)
(* Melody function tags                                                    *)
(***************************************************************************)
STEPS == {1, 2, 10, 11}

\* two hops that are both steps, of any size and direction
is_scale_line_any_step(d1, d2) == d1 \in STEPS /\ d2 \in STEPS

\* the test of a scale line on the two hops of a window of three notes
is_scale_line(d1, d2) == d1 \in STEPS /\ d2 = d1

\* only a rising semitone makes the passing tone chromatic
passing_label_rising_only(up, down) ==
    IF up = 1 \/ down = 1 THEN "chromatic_passing_tone" ELSE "passing_tone"

\* the label of a passing tone whose hops up and down are both steps
passing_label(up, down) ==
    IF up = 1 \/ down = 1 \/ up = 11 \/ down = 11
    THEN "chromatic_passing_tone"
    ELSE "passing_tone"

\* labels[i] of the code is position i+1 of the result
analyze_melody_functions(melody_pcs, root_pc, quality) ==
    LET n == Len(melody_pcs)
        tones == IF quality = "maj" THEN {0, 4, 7, 11}
                 ELSE IF quality = "min" THEN {0, 3, 7, 10}
                 ELSE {0, 4, 7, 10}
        guides == IF quality = "maj" THEN {4, 11}
                  ELSE IF quality = "min" THEN {3, 10}
                  ELSE {4, 10}
        chord_tones == {(root_pc + s) % 12 : s \in tones}
        guide_tones == {(root_pc + s) % 12 : s \in guides}
        \* j is the middle position of a window of three notes
        interior(j) == 1 < j /\ j < n
        d1(j) == (melody_pcs[j] - melody_pcs[j - 1]) % 12
        d2(j) == (melody_pcs[j + 1] - melody_pcs[j]) % 12
        line_at(j) == interior(j) /\ is_scale_line(d1(j), d2(j))
        \* one "scale_line" is appended to a position for every matching
        \* window it belongs to
        scale_lines(j) ==
            (IF line_at(j - 1) THEN <<"scale_line">> ELSE <<>>) \o
            (IF line_at(j) THEN <<"scale_line">> ELSE <<>>) \o
            (IF line_at(j + 1) THEN <<"scale_line">> ELSE <<>>)
        neighbor(j) ==
            IF interior(j) /\ melody_pcs[j - 1] = melody_pcs[j + 1]
               /\ melody_pcs[j - 1] \in chord_tones
            THEN IF d1(j) \in {1, 2} THEN <<"upper_neighbor">>
                 ELSE IF d1(j) \in {10, 11} THEN <<"lower_neighbor">>
                 ELSE <<>>
            ELSE <<>>
        passing(j) ==
            IF interior(j) /\ melody_pcs[j - 1] \in chord_tones
               /\ melody_pcs[j + 1] \in chord_tones
               /\ melody_pcs[j] \notin chord_tones
               /\ d1(j) \in STEPS /\ d2(j) \in STEPS
            THEN <<passing_label(d1(j), d2(j))>>
            ELSE <<>>
    IN [j \in 1..n |->
          (IF melody_pcs[j] \in guide_tones THEN <<"guide_tone">> ELSE <<>>) \o
          (IF melody_pcs[j] \in chord_tones THEN <<"chord_tone">> ELSE <<>>) \o
          scale_lines(j) \o neighbor(j) \o passing(j)]

(***************************************************************************)
(* Main analysis                                                           *)
(***************************************************************************)
\* the position of the last rejected note instead of the first
first_unknown_last(melody_notes) ==
    IF \E i \in 1..Len(melody_notes) : note_to_pc_exc(melody_notes[i]) # "None"
    THEN CHOOSE i \in 1..Len(melody_notes) :
             /\ note_to_pc_exc(melody_notes[i]) # "None"
             /\ \A j \in (i + 1)..Len(melody_notes) : note_to_pc_exc(melody_notes[j]) = "None"
    ELSE 0

\* position of the first melody note note_to_pc rejects, 0 when there is none
first_unknown(melody_notes) ==
    IF \E i \in 1..Len(melody_notes) : note_to_pc_exc(melody_notes[i]) # "None"
    THEN CHOOSE i \in 1..Len(melody_notes) :
             /\ note_to_pc_exc(melody_notes[i]) # "None"
             /\ \A j \in 1..(i - 1) : note_to_pc_exc(melody_notes[j]) = "None"
    ELSE 0

match_summary(m) ==
    [family |-> m.mode.family, name |-> m.mode.name, score |-> m.score,
     melody_score |-> m.melody_score, missing_core |-> m.missing_core,
     missing_extra |-> m.missing_extra]

\* analyze_chord_and_melody either raises (exc, msg) or returns (result); log is
\* the levels of the debug lines it printed; catalog is MODE_CATALOG afterwards
analyze_chord_and_melody(chord_symbol, melody_notes, global_key) ==
    LET chord == parse_chord_symbol(chord_symbol)
        bad == first_unknown(melody_notes)
    IN
    IF chord.exc # "None"
    THEN [exc |-> chord.exc, msg |-> chord.msg, log |-> <<>>, catalog |-> MODE_CATALOG]
    ELSE IF bad # 0
    THEN [exc |-> note_to_pc_exc(melody_notes[bad]),
          msg |-> unknown_note_msg(melody_notes[bad]),
          log |-> <<>>, catalog |-> MODE_CATALOG]
    ELSE
      LET melody_pcs == [i \in 1..Len(melody_notes) |-> note_to_pc(melody_notes[i])]
          badname == degree_in_global_major_bad(chord.root, global_key)
      IN
      IF badname # <<>>
      THEN [exc |-> note_to_pc_exc(badname[1]), msg |-> unknown_note_msg(badname[1]),
            log |-> <<>>, catalog |-> MODE_CATALOG]
      ELSE
        LET deg == degree_in_global_major(chord.root, global_key)
            roman == roman_for_degree(deg, chord.quality)
            mode_choice == choose_modes_21(chord, melody_pcs)
            root_pc == note_to_pc(chord.root)
        IN [exc |-> "None",
            result |->
              [global_key |-> global_key,
               chord |-> chord,
               degree_in_key |-> deg,
               roman |-> roman,
               best_mode |-> match_summary(mode_choice.best),
               alternatives |->
                   [k \in 1..Len(mode_choice.alternatives) |->
                       match_summary(mode_choice.alternatives[k])],
               melody_notes |->
                   [i \in 1..Len(melody_notes) |-> normalize_note(melody_notes[i])],
               melody_degrees |->
                   [i \in 1..Len(melody_pcs) |-> pitch_to_degree_label(melody_pcs[i], root_pc)],
               functions |-> analyze_melody_functions(melody_pcs, root_pc, chord.quality)],
            log |-> (IF DEBUG >= 3 THEN <<3>> ELSE <<>>)
                    \o choose_modes_21_log(ranked_modes(chord, melody_pcs)),
            catalog |-> choose_modes_21_catalog(chord, melody_pcs)]

(***************************************************************************)
(* Command line                                                            *)
(***************************************************************************)
NoMsg == [text |-> "", name |-> <<>>]

\* parse_cli_line without the test for an empty chord segment
parse_cli_line_any_chord(ln) ==
    LET k == find_char(ln, ":")
        chord == strip(SubSeq(ln, 1, k - 1))
        melody_raw == strip(SubSeq(ln, k + 1, Len(ln)))
        pieces == IF find_char(melody_raw, ",") # 0
                  THEN split_on(melody_raw, ",")
                  ELSE split_ws(melody_raw)
        tokens == [i \in 1..Len(pieces) |-> strip(pieces[i])]
        notes == SelectSeq(tokens, LAMBDA x : x # <<>>)
        raise(text) == [exc |-> "ValueError", msg |-> [text |-> text, name |-> <<>>]]
    IN IF k = 0 THEN raise("Input must contain ':' like  D7b9b13: F#, A, C, Eb, Bb")
       ELSE IF melody_raw = <<>> THEN raise("Missing melody notes after ':'.")
       ELSE IF notes = <<>> THEN raise("No valid note names parsed.")
       ELSE [exc |-> "None", chord |-> chord, notes |-> notes]

\* returns (chord, notes) or raises ValueError
parse_cli_line(ln) ==
    LET k == find_char(ln, ":")
        chord == strip(SubSeq(ln, 1, k - 1))
        melody_raw == strip(SubSeq(ln, k + 1, Len(ln)))
        pieces == IF find_char(melody_raw, ",") # 0
                  THEN split_on(melody_raw, ",")
                  ELSE split_ws(melody_raw)
        tokens == [i \in 1..Len(pieces) |-> strip(pieces[i])]
        notes == SelectSeq(tokens, LAMBDA x : x # <<>>)
        raise(text) == [exc |-> "ValueError", msg |-> [text |-> text, name |-> <<>>]]
    IN IF k = 0 THEN raise("Input must contain ':' like  D7b9b13: F#, A, C, Eb, Bb")
       ELSE IF chord = <<>> THEN raise("Missing chord before ':'.")
       ELSE IF melody_raw = <<>> THEN raise("Missing melody notes after ':'.")
       ELSE IF notes = <<>> THEN raise("No valid note names parsed.")
       ELSE [exc |-> "None", chord |-> chord, notes |-> notes]

DIGITS == <<"0","1","2","3","4","5","6","7","8","9">>

is_digit(c) == \E d \in 1..10 : DIGITS[d] = c

digit_value(c) == (CHOOSE d \in 1..10 : DIGITS[d] = c) - 1

RECURSIVE digits_value(_, _)
digits_value(ds, acc) ==
    IF ds = <<>> THEN acc
    ELSE IF Head(ds) = "_" THEN digits_value(Tail(ds), acc)
    ELSE digits_value(Tail(ds), 10 * acc + digit_value(Head(ds)))

\* int(x) for a str x: surrounding whitespace, one optional sign, then decimal
\* digits in which single underscores may separate digits
py_int(x) ==
    LET s == strip(x)
        signed == s # <<>> /\ s[1] \in {"+", "-"}
        body == IF signed THEN Tail(s) ELSE s
        ok == /\ body # <<>>
              /\ \A i \in 1..Len(body) : is_digit(body[i]) \/ body[i] = "_"
              /\ is_digit(body[1]) /\ is_digit(body[Len(body)])
              /\ \A i \in 1..(Len(body) - 1) : ~(body[i] = "_" /\ body[i + 1] = "_")
    IN IF ~ok THEN [exc |-> "ValueError", val |-> 0]
       ELSE [exc |-> "None",
             val |-> IF signed /\ s[1] = "-" THEN 0 - digits_value(body, 0)
                     ELSE digits_value(body, 0)]

NoCall == [exc |-> "NoCall"]

NoArgs == <<>>

\* what a call leaves in ret: the outcome without the catalog
outcome(a) ==
    IF a.exc = "None" THEN [exc |-> a.exc, result |-> a.result, log |-> a.log]
    ELSE [exc |-> a.exc, msg |-> a.msg, log |-> a.log]

\* main, `s = input("Enter > ").strip()`: input() returns the line inp
ReadLine(inp) ==
    /\ pc = "prompt"
    /\ pc' = "read"
    /\ line' = inp
    /\ printed' = [kind |-> "nothing", msg |-> NoMsg]
    /\ args' = NoArgs /\ ret' = NoCall
    /\ UNCHANGED <<DEBUG, MODE_CATALOG, snapshot>>

\* main, `if not s: continue`
Blank ==
    /\ pc = "read"
    /\ strip(line) = <<>>
    /\ pc' = "prompt"
    /\ UNCHANGED <<DEBUG, MODE_CATALOG, line, printed, args, ret, snapshot>>

\* main, `if s.lower() == "quit": break`
Quit ==
    /\ pc = "read"
    /\ strip(line) # <<>>
    /\ lower(strip(line)) = <<"q","u","i","t">>
    /\ printed' = [kind |-> "goodbye", msg |-> NoMsg]
    /\ pc' = "done"
    /\ UNCHANGED <<DEBUG, MODE_CATALOG, line, args, ret, snapshot>>

DEBUG_PREFIX == <<"d","e","b","u","g","=">>

\* the value of DEBUG after the try block of the debug command ran on s: the
\* assignment comes before the range test
debug_after(s, old) ==
    LET v == py_int(strip(SubSeq(s, find_char(s, "=") + 1, Len(s))))
    IN IF v.exc = "None" THEN v.val ELSE old

\* the debug command printed "Debug set to N." (otherwise the error line)
debug_accepted(s) ==
    LET v == py_int(strip(SubSeq(s, find_char(s, "=") + 1, Len(s))))
    IN v.exc = "None" /\ ~(v.val < 0 \/ v.val > 5)

\* main, `if s.lower().startswith("debug="):`
DebugCommand ==
    LET s == strip(line) IN
    /\ pc = "read"
    /\ s # <<>>
    /\ lower(s) # <<"q","u","i","t">>
    /\ startswith(lower(s), DEBUG_PREFIX)
    /\ DEBUG' = debug_after(s, DEBUG)
    /\ printed' = IF debug_accepted(s)
                  THEN [kind |-> "debug_set", msg |-> NoMsg]
                  ELSE [kind |-> "error",
                        msg |-> [text |-> "debug must be an integer 0..5.", name |-> <<>>]]
    /\ pc' = "prompt"
    /\ UNCHANGED <<MODE_CATALOG, line, args, ret, snapshot>>

\* main, the try block around parse_cli_line and analyze_chord_and_melody and
\* the report printed after it; only ValueError is caught
AnalysisLine ==
    LET s == strip(line)
        cli == parse_cli_line(s)
        a == analyze_chord_and_melody(cli.chord, cli.notes, GLOBAL_KEY)
    IN
    /\ pc = "read"
    /\ s # <<>>
    /\ lower(s) # <<"q","u","i","t">>
    /\ ~startswith(lower(s), DEBUG_PREFIX)
    /\ IF cli.exc # "None"
       THEN /\ printed' = [kind |-> IF cli.exc = "ValueError" THEN "error" ELSE "traceback",
                           msg |-> cli.msg]
            /\ pc' = IF cli.exc = "ValueError" THEN "prompt" ELSE "crashed"
            /\ UNCHANGED <<MODE_CATALOG, args, ret>>
       ELSE /\ args' = <<cli.chord, cli.notes, GLOBAL_KEY>>
            /\ ret' = outcome(a)
            /\ MODE_CATALOG' = a.catalog
            /\ printed' = IF a.exc = "None" THEN [kind |-> "report", msg |-> NoMsg]
                          ELSE IF a.exc = "ValueError" THEN [kind |-> "error", msg |-> a.msg]
                          ELSE [kind |-> "traceback", msg |-> a.msg]
            /\ pc' = IF a.exc \in {"None", "ValueError"} THEN "prompt" ELSE "crashed"
    /\ UNCHANGED <<DEBUG, line, snapshot>>

(***************************************************************************)
(* The first variant of the analyzer (ai-gen.py).  Its definitions carry   *)
(* the prefix aigen_, the names being those of ai-gen_v2.py.               *)
(***************************************************************************)
\* the table of ai-gen.py: the same 21 entries as that of ai-gen_v2.py
aigen_NOTE_TO_PC == NOTE_TO_PC

\* name.strip().replace(flat, "b").replace(sharp, "#").upper()
aigen_normalize_note(name) == upper(replace_accidentals(strip(name)))

\* the outcome of the call note_to_pc(name)
aigen_note_to_pc_call(name) ==
    LET n == aigen_normalize_note(name) IN
    IF n \notin DOMAIN aigen_NOTE_TO_PC
    THEN [exc |-> "ValueError", msg |-> [text |-> "Unknown note name: ", name |-> n]]
    ELSE [exc |-> "None", val |-> aigen_NOTE_TO_PC[n]]

aigen_build_major_scale_pcs(tonic) ==
    [i \in 1..Len(MAJOR_INTERVALS) |->
        (aigen_note_to_pc_call(tonic).val + MAJOR_INTERVALS[i]) % 12]

aigen_MODE_NAMES ==
    (1 :> "Ionian (major)") @@ (2 :> "Dorian") @@ (3 :> "Phrygian") @@ (4 :> "Lydian")
    @@ (5 :> "Mixolydian") @@ (6 :> "Aeolian (natural minor)") @@ (7 :> "Locrian")

aigen_rotate_intervals(mode_degree) ==
    LET shifted == SubSeq(MAJOR_INTERVALS, mode_degree, Len(MAJOR_INTERVALS))
                   \o SubSeq(MAJOR_INTERVALS, 1, mode_degree - 1)
    IN [i \in 1..Len(shifted) |-> (shifted[i] - shifted[1]) % 12]

\* s[0] of an empty text raises IndexError
aigen_parse_chord_symbol(symbol) ==
    LET s == replace_accidentals(strip(symbol)) IN
    IF s = <<>>
    THEN [exc |-> "IndexError",
          msg |-> [text |-> "string index out of range", name |-> <<>>]]
    ELSE
      LET parts == IF Len(s) >= 2 /\ s[2] \in {"#", "b"}
                   THEN <<SubSeq(s, 1, 2), SubSeq(s, 3, Len(s))>>
                   ELSE <<SubSeq(s, 1, 1), SubSeq(s, 2, Len(s))>>
          r_lower == lower(parts[2])
          has(x) == contains(r_lower, x)
          maj7 == has(<<"m","a","j">>) \/ has(<<"m","a","7">>)
                  \/ has(<<"m","a","j","7">>) \/ has(<<DELTA_SIGN>>)
          minor == ~maj7 /\ has(<<"m">>) /\ ~has(<<"m","a","j">>)
          dominant == ~maj7 /\ ~minor
                      /\ (has(<<"7">>) \/ has(<<"9">>) \/ has(<<"1","3">>))
      IN [exc |-> "None",
          symbol |-> symbol,
          root |-> aigen_normalize_note(parts[1]),
          quality |-> IF minor THEN "min" ELSE IF dominant THEN "dom" ELSE "maj",
          dominant |-> dominant,
          minor |-> minor,
          maj7 |-> maj7,
          extensions |-> present_in(<< <<"b","9">>, <<"#","9">>, <<"b","1","3">>,
                                       <<"#","1","1">> >>, r_lower)]

\* both names are known to note_to_pc here
aigen_get_degree_in_key(root, global_key) ==
    LET pcs == aigen_build_major_scale_pcs(global_key)
        root_pc == aigen_note_to_pc_call(root).val
    IN IF \E i \in 1..Len(pcs) : pcs[i] = root_pc
       THEN CHOOSE i \in 1..Len(pcs) : pcs[i] = root_pc /\ \A j \in 1..(i - 1) : pcs[j] # root_pc
       ELSE 0

aigen_roman_for_degree(degree, quality) ==
    IF degree = 0 THEN <<"N","/","A">>
    ELSE IF quality = "min" THEN lower(ROMANS[degree]) ELSE ROMANS[degree]

aigen_mode_for_degree(degree) ==
    IF degree \in DOMAIN aigen_MODE_NAMES THEN aigen_MODE_NAMES[degree] ELSE "Non-diatonic"

aigen_detect_tritone_sub(chord_info, global_key) ==
    IF ~chord_info.dominant THEN ""
    ELSE IF aigen_note_to_pc_call(chord_info.root).val
              = (aigen_note_to_pc_call(global_key).val + 1) % 12
    THEN "Tritone substitution of V7"
    ELSE ""

aigen_detect_modal_borrowing(degree, chord_info) ==
    IF degree = 4 /\ chord_info.minor THEN "Borrowed from parallel minor (iv)" ELSE ""

aigen_build_mode_scale(root, degree_in_key) ==
    LET root_pc == aigen_note_to_pc_call(root).val
        intervals == aigen_rotate_intervals(IF degree_in_key # 0 THEN degree_in_key ELSE 1)
    IN [i \in 1..Len(intervals) |-> (root_pc + intervals[i]) % 12]

aigen_pitch_to_chord_degree(p, chord_root_pc) == DEGREE_LABELS[(p - chord_root_pc) % 12]

\* labels[i] of the code is position i+1 of the result
aigen_analyze_melody_functions(melody_pcs, chord_scale_pcs, chord_root_pc) ==
    LET n == Len(melody_pcs)
        chord_tones == {(chord_root_pc + x) % 12 : x \in {0, 4, 7, 11}}
        guide_tones == {(chord_root_pc + 4) % 12, (chord_root_pc + 11) % 12}
        interior(j) == 1 < j /\ j < n
        d1(j) == (melody_pcs[j] - melody_pcs[j - 1]) % 12
        d2(j) == (melody_pcs[j + 1] - melody_pcs[j]) % 12
        line_at(j) == interior(j) /\ is_scale_line(d1(j), d2(j))
        scale_lines(j) ==
            (IF line_at(j - 1) THEN <<"scale_line">> ELSE <<>>) \o
            (IF line_at(j) THEN <<"scale_line">> ELSE <<>>) \o
            (IF line_at(j + 1) THEN <<"scale_line">> ELSE <<>>)
        neighbor(j) ==
            IF interior(j) /\ melody_pcs[j - 1] = melody_pcs[j + 1]
               /\ melody_pcs[j - 1] \in chord_tones
            THEN IF d1(j) \in {1, 2} THEN <<"upper_neighbor">>
                 ELSE IF d1(j) \in {10, 11} THEN <<"lower_neighbor">>
                 ELSE <<>>
            ELSE <<>>
        passing(j) ==
            IF interior(j) /\ melody_pcs[j - 1] \in chord_tones
               /\ melody_pcs[j + 1] \in chord_tones
               /\ melody_pcs[j] \notin chord_tones
               /\ d1(j) \in STEPS /\ d2(j) \in STEPS
            THEN IF in_list(melody_pcs[j], chord_scale_pcs)
                 THEN <<"passing_tone">>
                 ELSE <<"chromatic_passing_tone">>
            ELSE <<>>
    IN [j \in 1..n |->
          (IF melody_pcs[j] \in guide_tones THEN <<"guide_tone">>
           ELSE IF melody_pcs[j] \in chord_tones THEN <<"chord_tone">> ELSE <<>>) \o
          scale_lines(j) \o neighbor(j) \o passing(j)]

\* position of the first melody note note_to_pc rejects, 0 when there is none
aigen_first_unknown(melody_notes) ==
    IF \E i \in 1..Len(melody_notes) : aigen_note_to_pc_call(melody_notes[i]).exc # "None"
    THEN CHOOSE i \in 1..Len(melody_notes) :
             /\ aigen_note_to_pc_call(melody_notes[i]).exc # "None"
             /\ \A j \in 1..(i - 1) : aigen_note_to_pc_call(melody_notes[j]).exc = "None"
    ELSE 0

\* analyze_chord_and_melody(chord_symbol, global_key, melody_notes) of
\* ai-gen.py: it raises (exc, msg) or returns (result).  The names are looked
\* up in this order: the key, then the chord root (get_degree_in_key), then
\* the melody notes.
aigen_analyze_chord_and_melody(chord_symbol, global_key, melody_notes) ==
    LET chord_info == aigen_parse_chord_symbol(chord_symbol)
        key == aigen_note_to_pc_call(global_key)
    IN
    IF chord_info.exc # "None" THEN [exc |-> chord_info.exc, msg |-> chord_info.msg]
    ELSE IF key.exc # "None" THEN key
    ELSE IF aigen_note_to_pc_call(chord_info.root).exc # "None"
    THEN aigen_note_to_pc_call(chord_info.root)
    ELSE IF aigen_first_unknown(melody_notes) # 0
    THEN aigen_note_to_pc_call(melody_notes[aigen_first_unknown(melody_notes)])
    ELSE
      LET degree == aigen_get_degree_in_key(chord_info.root, global_key)
          chord_scale_pcs == IF degree = 0 THEN aigen_build_major_scale_pcs(chord_info.root)
                             ELSE aigen_build_mode_scale(chord_info.root, degree)
          chord_root_pc == aigen_note_to_pc_call(chord_info.root).val
          melody_pcs == [i \in 1..Len(melody_notes) |->
                            aigen_note_to_pc_call(melody_notes[i]).val]
      IN [exc |-> "None",
          result |->
            [chord_info |-> chord_info,
             degree_in_key |-> degree,
             roman |-> aigen_roman_for_degree(degree, chord_info.quality),
             mode |-> aigen_mode_for_degree(degree),
             tritone_sub |-> aigen_detect_tritone_sub(chord_info, global_key),
             modal_borrowing |-> aigen_detect_modal_borrowing(degree, chord_info),
             note_degrees |-> [i \in 1..Len(melody_pcs) |->
                                  aigen_pitch_to_chord_degree(melody_pcs[i], chord_root_pc)],
             functions |-> aigen_analyze_melody_functions(melody_pcs, chord_scale_pcs,
                                                         chord_root_pc)]]

(***************************************************************************)
(* Notes and major scales (major.py).  An object of class Note is the      *)
(* record of its attributes.                                               *)
(***************************************************************************)
chromatic == <<
    << <<"A">>,     <<"A">> >>,
    << <<"A","#">>, <<"B","b">> >>,
    << <<"B">>,     <<"B">> >>,
    << <<"C">>,     <<"C">> >>,
    << <<"C","#">>, <<"D","b">> >>,
    << <<"D">>,     <<"D">> >>,
    << <<"D","#">>, <<"E","b">> >>,
    << <<"E">>,     <<"E">> >>,
    << <<"F">>,     <<"F">> >>,
    << <<"F","#">>, <<"G","b">> >>,
    << <<"G">>,     <<"G">> >>,
    << <<"G","#">>, <<"A","b">> >> >>

chromatic_notes_set == {chromatic[i][k] : i \in 1..Len(chromatic), k \in 1..2}

major_scale_intervals == <<2, 2, 1, 2, 2, 2, 1>>

\* Note(note, octave); position counts from 0 as in the code
Note(note, octave) ==
    IF note \notin chromatic_notes_set
    THEN [exc |-> "ValueError"]
    ELSE
      LET position == (CHOOSE i \in 1..Len(chromatic) :
                          /\ note \in {chromatic[i][1], chromatic[i][2]}
                          /\ \A j \in 1..(i - 1) :
                                note \notin {chromatic[j][1], chromatic[j][2]}) - 1
          octave_position == IF position >= 3 THEN position - 12 ELSE position
      IN [exc |-> "None",
          is_sharp |-> find_char(note, "b") = 0,
          position |-> position,
          octave_position |-> octave_position,
          code |-> 12 * (octave - 3) + octave_position]

\* Note.from_int(code, is_sharp); % and // round towards minus infinity
Note_from_int(code, is_sharp) ==
    Note(chromatic[(code % Len(chromatic)) + 1][IF is_sharp THEN 1 ELSE 2],
         (code \div 12) + 4)

Note_get_name(n) == chromatic[n.position + 1][IF n.is_sharp THEN 1 ELSE 2]

\* Note.get_octave()
Note_get_octave(n) == ((n.code - n.octave_position) \div 12) + 4

\* Note.__add__(other) for an integer other
Note_add(n, other) == Note_from_int(n.code + other, TRUE)

\* MajorScale.from_note_int(root_code, is_sharp): the scale object is its root
MajorScale_from_note_int(root_code, is_sharp) ==
    [root |-> Note_from_int(root_code, is_sharp)]

\* cur_note_pos after k passes of the loop of get_major_scale
RECURSIVE cur_note_pos(_, _)
cur_note_pos(root, k) ==
    IF k = 0 THEN root.code
    ELSE cur_note_pos(root, k - 1)
         + major_scale_intervals[((k - 1) % Len(major_scale_intervals)) + 1]

\* MajorScale.get_major_scale(length): the root, then one note per pass
get_major_scale(self, length) ==
    <<self.root>> \o
    [k \in 1..length |-> Note_from_int(cur_note_pos(self.root, k), self.root.is_sharp)]

(***************************************************************************)
(* Inputs                                                                  *)
(***************************************************************************)
MaxMelodyLen == 2

MaxLineNotes == 2

SYM_G7 == <<"G","7">>

SYM_Dm7 == <<"D","m","7">>

SYM_Ebm7 == <<"E","b","m","7">>

\* the chord symbols R + "m7" for every root name R of the note table
M7Chords == {R \o <<"m","7">> : R \in DOMAIN NOTE_TO_PC}

LibChords ==
    {SYM_G7, SYM_Dm7, <<"C">>, <<"C","m","a","j","7">>, <<"D","7","b","9","b","1","3">>, <<"G","m">>, <<"H","7">>, <<>>, <<" ">>}

MelodyNames == {<<"F","#">>, <<"A">>, <<"C">>, <<"D">>}

GenMelodies == UNION {[1..k -> MelodyNames] : k \in 0..MaxMelodyLen}

MEL_G7 == <<<<"F","#">>, <<"A">>, <<"C">>, <<"D">>>>

MEL_Dm7 == <<<<"F">>, <<"A">>, <<"C">>, <<"E">>>>

\* four notes a whole tone apart: two overlapping scale-line windows
MEL_Line == <<<<"C">>, <<"D">>, <<"E">>, <<"F","#">>>>

ScenarioMelodies ==
    {MEL_G7, MEL_Dm7, MEL_Line, <<<<"H">>>>, <<<<"C">>, <<"H">>, <<"X">>>>, <<<<"C">>, <<"x","#">>, <<"H">>>>, <<<<" ","e","b">>, <<"C">>>>}

LibKeys == {<<"G">>, <<"C">>, <<"Q">>}

AnalyzeInputs ==
    (LibChords \X (GenMelodies \cup ScenarioMelodies) \X LibKeys)
    \cup (M7Chords \X {MEL_Dm7} \X {<<"C">>})

\* lines typed at the prompt
join_notes(notes, sep) ==
    LET RECURSIVE go(_)
        go(k) == IF k = 0 THEN <<>>
                 ELSE IF k = 1 THEN notes[1]
                 ELSE go(k - 1) \o sep \o notes[k]
    IN go(Len(notes))

CliChords == {SYM_G7, SYM_Dm7, <<"H","7">>}

CliNotes == {<<"F","#">>, <<"C">>, <<"H">>}

CliSeparators == {<<","," ">>, <<" ">>}

GenLines ==
    {c \o <<":", " ">> \o join_notes(m, sep) :
        c \in CliChords,
        m \in UNION {[1..k -> CliNotes] : k \in 1..MaxLineNotes},
        sep \in CliSeparators}

LINE_G7 == <<"G","7",":"," ","F","#",","," ","A",","," ","C",","," ","D">>

QuitLines == {<<"q","u","i","t">>, <<" ","Q","u","i","T"," ">>}

BlankLines == {<<>>, <<" "," ">>}

DebugLines ==
    {<<"d","e","b","u","g","=","0">>, <<"d","e","b","u","g","=","3">>,
     <<"d","e","b","u","g","=","5">>, <<"d","e","b","u","g","=","6">>,
     <<"d","e","b","u","g","=","-","1">>, <<"D","E","B","U","G","="," ","4">>,
     <<"d","e","b","u","g","=","x">>, <<"d","e","b","u","g","=">>}

MalformedLines ==
    {<<"C","7"," ","F","#"," ","A">>, <<" ",":"," ","C",","," ","D">>, <<"C","7",":">>, <<"C","7",":"," "," ">>,
     <<"C",":"," ",","," ",",">>, <<"F","#",","," ","A">>}

OtherLines ==
    {LINE_G7, <<"D","m","7",":"," ","F"," ","A"," ","C"," ","E">>,
     <<"E","b","m","7",":"," ","G","b",","," ","b","b">>,
     <<"C",":"," ","E",","," ","G"," ","B">>,
     <<"g","7"," ",":"," ","f","#",",","a">>}

InputLines ==
    QuitLines \cup BlankLines \cup DebugLines \cup MalformedLines \cup OtherLines
    \cup GenLines

\* chord symbols for parse_chord_symbol called on its own: a root followed by
\* at most MaxSuffixTokens pieces of suffix text
MaxSuffixTokens == 2

SuffixTokens ==
    {<<"m">>, <<"M">>, <<"m","a","j">>, <<"m","a">>, <<"m","i","n">>, <<DELTA_SIGN>>,
     <<"7">>, <<"9">>, <<"1","1">>, <<"1","3">>,
     <<"b","9">>, <<"#","9">>, <<"#","1","1">>, <<"b","1","3">>, <<"b","5">>, <<"#","5">>,
     <<"s","u","s">>}

RECURSIVE Suffixes(_)
Suffixes(k) ==
    IF k = 0 THEN {<<>>}
    ELSE Suffixes(k - 1) \cup {s \o t : s \in Suffixes(k - 1), t \in SuffixTokens}

ChordRoots == {<<"C">>, <<"E","b">>, <<" ","f",SHARP_SIGN>>}

ChordSymbols ==
    {r \o s : r \in ChordRoots, s \in Suffixes(MaxSuffixTokens)} \cup {<<>>, <<" ">>}

\* arguments for mode_match_rank called on its own
MaxRankMelodyLen == 3

RankRoots == {0, 7}

RankMelodyPcs == {0, 6, 9}

RankMelodies == UNION {[1..k -> RankMelodyPcs] : k \in 0..MaxRankMelodyLen}

\* <<core, extra>>: the required tones of G7, Dm9(11), Cmaj7b9b13, and lists
\* that repeat a pitch class
RankRequired ==
    {<< <<0, 4, 7, 10>>, <<>> >>, << <<0, 3, 7, 10>>, <<2, 5>> >>,
     << <<0, 4, 7, 11>>, <<1, 8>> >>, << <<0, 4, 16>>, <<6, 6>> >>}

RankInputs ==
    {<<r, q[1], q[2], m, build_catalog[k]>> :
        r \in RankRoots, q \in RankRequired, m \in RankMelodies,
        k \in 1..Len(build_catalog)}

\* note names for normalize_note and note_to_pc called on their own: every
\* text of at most MaxNameLen characters over NameChars, and the names of the
\* table
MaxNameLen == 3

NameChars == {" ", "b", "B", "e", "#", FLAT_SIGN, SHARP_SIGN}

GenNames == UNION {[1..k -> NameChars] : k \in 0..MaxNameLen}

NoteInputs ==
    {<<a, <<"C">>>> : a \in GenNames} \cup ((DOMAIN NOTE_TO_PC) \X (DOMAIN NOTE_TO_PC))

\* arguments for the functions of ai-gen.py: a note name for note_to_pc, or
\* <<chord_symbol, global_key, melody_notes>> for analyze_chord_and_melody
MaxAigenMelodyLen == 3

AigenChords ==
    {<<"E","b","7">>, SYM_G7, <<"B","b","m","7">>, <<"F","#","7">>, <<"C">>,
     <<"A","b","m","a","j","7">>, <<"D","m">>, <<>>}

AigenMelodyNames == {<<"D">>, <<"E","b">>, <<"F","#">>}

AigenMelodies ==
    UNION {[1..k -> AigenMelodyNames] : k \in 0..MaxAigenMelodyLen}
    \cup {<< <<"D">>, <<"E">>, <<"G">>, <<"B">> >>}

AigenKeys == {<<"G">>, <<"B","b">>}

AigenInputs ==
    {<<n>> : n \in GenNames \cup DOMAIN aigen_NOTE_TO_PC}
    \cup (AigenChords \X AigenKeys \X AigenMelodies)

\* arguments for MajorScale.from_note_int(root_code, is_sharp) followed by
\* get_major_scale(length): root codes over three octaves around A4
MaxScaleRoot == 12

ScaleRootCodes == (0 - MaxScaleRoot)..(2 * MaxScaleRoot - 1)

DEFAULT_LENGTH == 7

ScaleLengths == {DEFAULT_LENGTH, 0, 1, 8}

ScaleInputs == ScaleRootCodes \X BOOLEAN \X ScaleLengths

(***************************************************************************)
(* Specifications                                                          *)
(***************************************************************************)
\* the process at its first prompt: the module body has run, main has printed
\* its banner and waits in input()
Init ==
    /\ pc = "prompt"
    /\ DEBUG = 0
    /\ MODE_CATALOG = build_catalog
    /\ line = <<>>
    /\ printed = [kind |-> "banner", msg |-> NoMsg]
    /\ args = NoArgs
    /\ ret = NoCall
    /\ snapshot = <<>>

\* the `while True` loop of main
Next ==
    \/ \E inp \in InputLines : ReadLine(inp)
    \/ Blank
    \/ Quit
    \/ DebugCommand
    \/ AnalysisLine

Spec == Init /\ [][Next]_vars

\* the module imported as a library: analyze_chord_and_melody is about to be
\* called with the arguments args
InitAnalyze ==
    /\ pc = "imported"
    /\ DEBUG = 0
    /\ MODE_CATALOG = build_catalog
    /\ line = <<>>
    /\ printed = [kind |-> "nothing", msg |-> NoMsg]
    /\ args \in AnalyzeInputs
    /\ ret = NoCall
    /\ snapshot = <<>>

\* the call analyze_chord_and_melody(*args)
Analyze ==
    LET a == analyze_chord_and_melody(args[1], args[2], args[3]) IN
    /\ pc = "imported"
    /\ ret = NoCall
    /\ ret' = outcome(a)
    /\ MODE_CATALOG' = a.catalog
    /\ UNCHANGED <<pc, DEBUG, line, printed, args, snapshot>>

NextAnalyze == Analyze

SpecAnalyze == InitAnalyze /\ [][NextAnalyze]_vars

\* History for comparing two calls: snapshot takes <<args, ret, DEBUG>> of the
\* call just made, once; it is read by no operation of the program.
Remember ==
    /\ pc = "prompt"
    /\ ret # NoCall
    /\ snapshot = <<>>
    /\ snapshot' = <<args, ret, DEBUG>>
    /\ UNCHANGED <<pc, DEBUG, MODE_CATALOG, line, printed, args, ret>>

TwiceLines ==
    {<<"q","u","i","t">>, <<>>, <<"d","e","b","u","g","=","5">>, <<"d","e","b","u","g","=","0">>,
     <<"d","e","b","u","g","=","6">>, LINE_G7, <<"D","m","7",":"," ","F"," ","A"," ","C"," ","E">>,
     <<"H","7",":"," ","C">>, <<"C",":"," ","C",","," ","H">>, <<"C","7",":">>}

\* the loop of main, with the history step
NextTwice ==
    \/ \E inp \in TwiceLines : ReadLine(inp)
    \/ Blank
    \/ Quit
    \/ DebugCommand
    \/ AnalysisLine
    \/ Remember

SpecTwice == Init /\ [][NextTwice]_vars

\* parse_chord_symbol is about to be called with the symbol args[1]
InitChord ==
    /\ pc = "parse_chord_symbol"
    /\ DEBUG = 0
    /\ MODE_CATALOG = build_catalog
    /\ line = <<>>
    /\ printed = [kind |-> "nothing", msg |-> NoMsg]
    /\ args \in {<<sym>> : sym \in ChordSymbols}
    /\ ret = NoCall
    /\ snapshot = <<>>

\* ch = parse_chord_symbol(symbol), then chord_required_semitones(ch)
ParseChord ==
    LET ch == parse_chord_symbol(args[1]) IN
    /\ pc = "parse_chord_symbol"
    /\ ret = NoCall
    /\ ret' = IF ch.exc = "None"
              THEN [exc |-> "None", chord |-> ch, required |-> chord_required_semitones(ch)]
              ELSE [exc |-> ch.exc, msg |-> ch.msg]
    /\ UNCHANGED <<pc, DEBUG, MODE_CATALOG, line, printed, args, snapshot>>

NextChord == ParseChord

SpecChord == InitChord /\ [][NextChord]_vars

\* mode_match_rank is about to be called with the arguments args
InitRank ==
    /\ pc = "mode_match_rank"
    /\ DEBUG = 0
    /\ MODE_CATALOG = build_catalog
    /\ line = <<>>
    /\ printed = [kind |-> "nothing", msg |-> NoMsg]
    /\ args \in RankInputs
    /\ ret = NoCall
    /\ snapshot = <<>>

\* the call mode_match_rank(*args)
Rank ==
    /\ pc = "mode_match_rank"
    /\ ret = NoCall
    /\ ret' = [exc |-> "None",
               match |-> mode_match_rank(args[1], args[2], args[3], args[4], args[5])]
    /\ UNCHANGED <<pc, DEBUG, MODE_CATALOG, line, printed, args, snapshot>>

NextRank == Rank

SpecRank == InitRank /\ [][NextRank]_vars

\* note_to_pc is about to be called with the name args[1], then with args[2]
InitNote ==
    /\ pc = "note_to_pc"
    /\ DEBUG = 0
    /\ MODE_CATALOG = build_catalog
    /\ line = <<>>
    /\ printed = [kind |-> "nothing", msg |-> NoMsg]
    /\ args \in NoteInputs
    /\ ret = NoCall
    /\ snapshot = <<>>

\* the calls note_to_pc(args[1]) and note_to_pc(args[2])
NoteToPc ==
    /\ pc = "note_to_pc"
    /\ ret = NoCall
    /\ ret' = [exc |-> "None",
               pcs |-> <<note_to_pc_call(args[1]), note_to_pc_call(args[2])>>]
    /\ UNCHANGED <<pc, DEBUG, MODE_CATALOG, line, printed, args, snapshot>>

\* n = normalize_note(x) and note_to_pc(n), x being args[1] the first time and
\* the n of the first time the second time; snapshot keeps both outcomes
NormalizeNote ==
    LET x == IF snapshot = <<>> THEN args[1] ELSE snapshot[Len(snapshot)].name
        n == normalize_note(x)
    IN
    /\ pc = "note_to_pc"
    /\ ret # NoCall
    /\ Len(snapshot) < 2
    /\ snapshot' = Append(snapshot, [name |-> n, lookup |-> note_to_pc_call(n)])
    /\ UNCHANGED <<pc, DEBUG, MODE_CATALOG, line, printed, args, ret>>

NextNote == NoteToPc \/ NormalizeNote

SpecNote == InitNote /\ [][NextNote]_vars

\* ai-gen.py used as a library: note_to_pc or analyze_chord_and_melody is
\* about to be called with the arguments args
InitAigen ==
    /\ pc = "ai-gen.py"
    /\ DEBUG = 0
    /\ MODE_CATALOG = build_catalog
    /\ line = <<>>
    /\ printed = [kind |-> "nothing", msg |-> NoMsg]
    /\ args \in AigenInputs
    /\ ret = NoCall
    /\ snapshot = <<>>

\* the call note_to_pc(args[1]) of ai-gen.py
AigenNoteToPc ==
    /\ pc = "ai-gen.py"
    /\ Len(args) = 1
    /\ ret = NoCall
    /\ ret' = aigen_note_to_pc_call(args[1])
    /\ UNCHANGED <<pc, DEBUG, MODE_CATALOG, line, printed, args, snapshot>>

\* the call analyze_chord_and_melody(*args) of ai-gen.py
AigenAnalyze ==
    /\ pc = "ai-gen.py"
    /\ Len(args) = 3
    /\ ret = NoCall
    /\ ret' = aigen_analyze_chord_and_melody(args[1], args[2], args[3])
    /\ UNCHANGED <<pc, DEBUG, MODE_CATALOG, line, printed, args, snapshot>>

NextAigen == AigenNoteToPc \/ AigenAnalyze

SpecAigen == InitAigen /\ [][NextAigen]_vars

\* major.py used as a library: MajorScale.from_note_int(args[1], args[2]) has
\* built the scale object, get_major_scale(args[3]) is about to be called
\* every chord root and global key of the note table, with every quality
TableNames == DOMAIN NOTE_TO_PC
QUALITIES == {"maj", "min", "dom"}
DegreeInputs == TableNames \X TableNames \X QUALITIES

InitDegree ==
    /\ pc = "degree_in_global_major"
    /\ DEBUG = 0
    /\ MODE_CATALOG = build_catalog
    /\ line = <<>>
    /\ printed = [kind |-> "nothing", msg |-> NoMsg]
    /\ args \in DegreeInputs
    /\ ret = NoCall
    /\ snapshot = <<>>

\* the call degree_in_global_major(args[1], args[2])
DegreeInGlobalMajor ==
    /\ pc = "degree_in_global_major"
    /\ ret = NoCall
    /\ ret' = [exc |-> "None", degree |-> degree_in_global_major(args[1], args[2])]
    /\ pc' = "roman_for_degree"
    /\ UNCHANGED <<DEBUG, MODE_CATALOG, line, printed, args, snapshot>>

\* the call roman_for_degree(degree, args[3]) on the degree just computed
RomanForDegree ==
    /\ pc = "roman_for_degree"
    /\ snapshot = <<>>
    /\ snapshot' = <<roman_for_degree(ret.degree, args[3])>>
    /\ UNCHANGED <<pc, DEBUG, MODE_CATALOG, line, printed, args, ret>>

NextDegree == DegreeInGlobalMajor \/ RomanForDegree

SpecDegree == InitDegree /\ [][NextDegree]_vars

\* melodies of pitch classes for the melody function classifier: chord tones
\* of C major 7 (0, 4, 7, 11) and tones a step away from them (2, 6)
MaxFnMelodyLen == 4
FnPcs == {0, 2, 4, 6, 7, 11}
FnMelodies == UNION {[1..k -> FnPcs] : k \in 0..MaxFnMelodyLen}
FnRoots == {0}
FnInputs == FnMelodies \X FnRoots \X QUALITIES

InitFunctions ==
    /\ pc = "analyze_melody_functions"
    /\ DEBUG = 0
    /\ MODE_CATALOG = build_catalog
    /\ line = <<>>
    /\ printed = [kind |-> "nothing", msg |-> NoMsg]
    /\ args \in FnInputs
    /\ ret = NoCall
    /\ snapshot = <<>>

\* the call analyze_melody_functions(args[1], args[2], args[3]) of ai-gen_v2.py
AnalyzeMelodyFunctions ==
    /\ pc = "analyze_melody_functions"
    /\ ret = NoCall
    /\ ret' = [exc |-> "None",
               functions |-> analyze_melody_functions(args[1], args[2], args[3])]
    /\ UNCHANGED <<pc, DEBUG, MODE_CATALOG, line, printed, args, snapshot>>

\* the call analyze_melody_functions(args[1], chord_scale_pcs, args[2]) of
\* ai-gen.py, with the major scale on the chord root as the chord scale
AigenAnalyzeMelodyFunctions ==
    LET chord_scale_pcs == [k \in 1..7 |-> (args[2] + MAJOR_INTERVALS[k]) % 12] IN
    /\ pc = "analyze_melody_functions"
    /\ snapshot = <<>>
    /\ snapshot' = <<aigen_analyze_melody_functions(args[1], chord_scale_pcs, args[2])>>
    /\ UNCHANGED <<pc, DEBUG, MODE_CATALOG, line, printed, args, ret>>

NextFunctions == AnalyzeMelodyFunctions \/ AigenAnalyzeMelodyFunctions

SpecFunctions == InitFunctions /\ [][NextFunctions]_vars

\* note codes around A4, names of the chromatic table and one that is not a
\* note name, octaves around 4, and the integers added to a note
NoteSteps == {0 - 1, 0, 2, 12}
FromIntInputs == ScaleRootCodes \X BOOLEAN \X NoteSteps
NoteOctaves == {3, 4, 5}
NewNoteInputs == (chromatic_notes_set \cup {<<"H">>}) \X NoteOctaves \X NoteSteps

InitNoteCode ==
    /\ DEBUG = 0
    /\ MODE_CATALOG = build_catalog
    /\ line = <<>>
    /\ printed = [kind |-> "nothing", msg |-> NoMsg]
    /\ \/ pc = "Note.from_int" /\ args \in FromIntInputs
       \/ pc = "Note" /\ args \in NewNoteInputs
    /\ ret = NoCall
    /\ snapshot = <<>>

\* the call Note.from_int(args[1], args[2])
NoteFromInt ==
    /\ pc = "Note.from_int"
    /\ ret = NoCall
    /\ ret' = [exc |-> "None", note |-> Note_from_int(args[1], args[2])]
    /\ UNCHANGED <<pc, DEBUG, MODE_CATALOG, line, printed, args, snapshot>>

\* the call Note(args[1], args[2])
NewNote ==
    LET n == Note(args[1], args[2]) IN
    /\ pc = "Note"
    /\ ret = NoCall
    /\ ret' = IF n.exc = "None" THEN [exc |-> "None", note |-> n]
              ELSE [exc |-> n.exc]
    /\ UNCHANGED <<pc, DEBUG, MODE_CATALOG, line, printed, args, snapshot>>

\* the call get_octave() on the note just made
NoteGetOctave ==
    /\ ret # NoCall
    /\ ret.exc = "None"
    /\ snapshot = <<>>
    /\ snapshot' = <<Note_get_octave(ret.note)>>
    /\ UNCHANGED <<pc, DEBUG, MODE_CATALOG, line, printed, args, ret>>

\* the expression note + args[3] on the note just made
NoteAdd ==
    /\ Len(snapshot) = 1
    /\ snapshot' = snapshot \o <<Note_add(ret.note, args[3])>>
    /\ UNCHANGED <<pc, DEBUG, MODE_CATALOG, line, printed, args, ret>>

NextNoteCode == NoteFromInt \/ NewNote \/ NoteGetOctave \/ NoteAdd

SpecNoteCode == InitNoteCode /\ [][NextNoteCode]_vars

InitScale ==
    /\ pc = "major.py"
    /\ DEBUG = 0
    /\ MODE_CATALOG = build_catalog
    /\ line = <<>>
    /\ printed = [kind |-> "nothing", msg |-> NoMsg]
    /\ args \in ScaleInputs
    /\ ret = NoCall
    /\ snapshot = <<>>

\* the call MajorScale.from_note_int(args[1], args[2]).get_major_scale(args[3])
GetMajorScale ==
    LET scale == get_major_scale(MajorScale_from_note_int(args[1], args[2]), args[3]) IN
    /\ pc = "major.py"
    /\ ret = NoCall
    /\ ret' = [exc |-> "None", scale |-> scale,
               names |-> [i \in 1..Len(scale) |-> Note_get_name(scale[i])]]
    /\ UNCHANGED <<pc, DEBUG, MODE_CATALOG, line, printed, args, snapshot>>

NextScale == GetMajorScale

SpecScale == InitScale /\ [][NextScale]_vars

(***************************************************************************)
(* Properties                                                              *)
(***************************************************************************)
QUIT_WORD == <<"q","u","i","t">>

\* a library call has been made and has returned a result
Returned == pc = "imported" /\ ret # NoCall /\ ret.exc = "None"

melody_pcs_of(notes) == [i \in 1..Len(notes) |-> note_to_pc(notes[i])]

\* C1: choose_modes_21 ranks every catalog mode exactly once, by score
\* descending, then family_rank ascending, then mode_rank ascending; best is
\* rank 0, no mode scores higher, and alternatives are ranks 1..5 in order.
C1_RankingOrder ==
    Returned =>
      LET chord == ret.result.chord
          pcs == melody_pcs_of(args[2])
          req == chord_required_semitones(chord)
          ranked == ranked_modes(chord, pcs)
          choice == choose_modes_21(chord, pcs)
      IN /\ Len(ranked) = 21
         /\ \A k \in 1..Len(MODE_CATALOG) :
               Cardinality({i \in 1..Len(ranked) : ranked[i].mode = MODE_CATALOG[k]}) = 1
         /\ \A i \in 1..Len(ranked) :
               ranked[i] = mode_match_rank(note_to_pc(chord.root), req[1], req[2], pcs,
                                           ranked[i].mode)
         /\ \A i, j \in 1..Len(ranked) :
               i < j =>
                 /\ ~frac_less(ranked[i].score, ranked[j].score)
                 /\ frac_eq(ranked[i].score, ranked[j].score) =>
                      \/ ranked[i].mode.family_rank < ranked[j].mode.family_rank
                      \/ /\ ranked[i].mode.family_rank = ranked[j].mode.family_rank
                         /\ ranked[i].mode.mode_rank < ranked[j].mode.mode_rank
         /\ choice.best = ranked[1]
         /\ \A i \in 1..Len(ranked) : ~frac_less(choice.best.score, ranked[i].score)
         /\ Len(choice.alternatives) = 5
         /\ \A k \in 1..5 : choice.alternatives[k] = ranked[k + 1]
         /\ ret.result.best_mode = match_summary(ranked[1])
         /\ ret.result.alternatives = [k \in 1..5 |-> match_summary(ranked[k + 1])]

\* a ranking in which the best mode and the next one have the same score and
\* differ in family: the tie-break decided
C1_Witness ==
    /\ Returned
    /\ frac_eq(ret.result.best_mode.score, ret.result.alternatives[1].score)
    /\ ret.result.best_mode.family # ret.result.alternatives[1].family

\* C2: analyze("G7", ["F#","A","C","D"], "G") returns as best mode the
\* major-family Mixolydian mode (intervals 0,2,4,5,7,9,10), with empty
\* missing_core and missing_extra, and no catalog mode has a higher score.
C2_G7BestIsMixolydian ==
    (pc = "imported" /\ ret # NoCall /\ args = <<SYM_G7, MEL_G7, GLOBAL_KEY>>) =>
      /\ ret.exc = "None"
      /\ ret.result.best_mode.family = "major"
      /\ ret.result.best_mode.name = "Mixolydian"
      /\ \E k \in 1..Len(MODE_CATALOG) :
            /\ MODE_CATALOG[k].family = "major" /\ MODE_CATALOG[k].name = "Mixolydian"
            /\ MODE_CATALOG[k].intervals = <<0, 2, 4, 5, 7, 9, 10>>
      /\ ret.result.best_mode.missing_core = {}
      /\ ret.result.best_mode.missing_extra = {}
      /\ \A k \in 1..Len(MODE_CATALOG) :
            ~frac_less(ret.result.best_mode.score,
                       mode_match_rank(7, <<0, 4, 7, 10>>, <<>>, <<6, 9, 0, 2>>,
                                       MODE_CATALOG[k]).score)

C2_Witness ==
    /\ Returned
    /\ args = <<SYM_G7, MEL_G7, GLOBAL_KEY>>
    /\ ret.result.best_mode.score = <<140, 8>>

\* C3 as stated: analyze("G7", ["F#","A","C","D"], "G") returns root G, quality
\* dominant, core [0,4,7,10], degree_in_key = 5 and roman numeral "V".
C3_G7IsDegreeFive ==
    (pc = "imported" /\ ret # NoCall /\ args = <<SYM_G7, MEL_G7, GLOBAL_KEY>>) =>
      /\ ret.exc = "None"
      /\ ret.result.chord.root = <<"G">>
      /\ ret.result.chord.quality = "dom"
      /\ chord_required_semitones(ret.result.chord)[1] = <<0, 4, 7, 10>>
      /\ ret.result.degree_in_key = 5
      /\ ret.result.roman = <<"V">>

\* C3 amended: the same call returns root G, quality dominant, core
\* [0,4,7,10], degree_in_key = 1 and roman numeral "I" (G is the first degree
\* of G major).
C3_G7IsDegreeOne ==
    (pc = "imported" /\ ret # NoCall /\ args = <<SYM_G7, MEL_G7, GLOBAL_KEY>>) =>
      /\ ret.exc = "None"
      /\ ret.result.chord.root = <<"G">>
      /\ ret.result.chord.quality = "dom"
      /\ chord_required_semitones(ret.result.chord)[1] = <<0, 4, 7, 10>>
      /\ ret.result.degree_in_key = 1
      /\ ret.result.roman = <<"I">>

C3_Witness ==
    /\ Returned
    /\ args = <<SYM_G7, MEL_G7, GLOBAL_KEY>>
    /\ ret.result.chord.dominant

\* C4: for every root name R of the note table, R followed by "m7" parses to
\* root R and quality minor with required core tones [0,3,7,10]; "Ebm7" gives
\* root "Eb".
C4_MinorSeventhChords ==
    \A R \in DOMAIN NOTE_TO_PC :
      (pc = "imported" /\ ret # NoCall /\ args[1] = R \o <<"m","7">>) =>
        LET ch == parse_chord_symbol(args[1]) IN
        /\ ch.exc = "None"
        /\ ch.root = R
        /\ ch.quality = "min"
        /\ chord_required_semitones(ch)[1] = <<0, 3, 7, 10>>
        /\ ret.exc = "None" => ret.result.chord = ch

C4_Witness ==
    /\ Returned
    /\ args[1] = SYM_Ebm7
    /\ ret.result.chord.root = <<"E","b">>

\* C5: when the chord symbol parses and some melody note is not in the note
\* table, analyze raises the unknown-note error naming (in normalized form) the
\* first such note in input order, and returns no result.
C5_FirstUnknownNoteNamed ==
    LET unknown(i) == normalize_note(args[2][i]) \notin DOMAIN NOTE_TO_PC IN
    \A i \in 1..Len(args[2]) :
      (/\ pc = "imported" /\ ret # NoCall
       /\ replace_accidentals(strip(args[1])) # <<>>
       /\ unknown(i) /\ \A j \in 1..(i - 1) : ~unknown(j)) =>
        /\ ret.exc = "ValueError"
        /\ ret.msg.text = "Unknown note name: "
        /\ ret.msg.name = normalize_note(args[2][i])
        /\ "result" \notin DOMAIN ret

\* two unknown notes, and an unknown key as well: the first note is named
C5_Witness ==
    /\ pc = "imported" /\ ret # NoCall
    /\ args = <<<<"C">>, <<<<"C">>, <<"H">>, <<"X">>>>, <<"Q">>>>
    /\ ret.msg.name = <<"H">>

\* C6: a line without ':', or with an empty chord segment, or with an empty
\* melody segment makes parse_cli_line raise its error for that case, the loop
\* prints it, and analyze_chord_and_melody is not called for the line.
C6_MalformedLineNotAnalyzed ==
    LET s == strip(line)
        k == find_char(s, ":")
        no_colon == k = 0
        no_chord == k # 0 /\ strip(SubSeq(s, 1, k - 1)) = <<>>
        no_melody == k # 0 /\ strip(SubSeq(s, k + 1, Len(s))) = <<>>
        command == s = <<>> \/ lower(s) = QUIT_WORD \/ startswith(lower(s), DEBUG_PREFIX)
    IN (pc \in {"prompt", "done", "crashed"} /\ printed.kind # "banner"
        /\ (no_colon \/ no_chord \/ no_melody)) =>
         /\ ret = NoCall
         /\ args = NoArgs
         /\ ~command =>
              /\ pc = "prompt"
              /\ printed.kind = "error"
              /\ printed.msg.text =
                   IF no_colon THEN "Input must contain ':' like  D7b9b13: F#, A, C, Eb, Bb"
                   ELSE IF no_chord THEN "Missing chord before ':'."
                   ELSE "Missing melody notes after ':'."

C6_Witness ==
    /\ pc = "prompt"
    /\ line = <<"C","7",":">>
    /\ printed.msg.text = "Missing melody notes after ':'."
    /\ ret = NoCall

\* C7: the loop body always returns to the prompt, except for a line that is
\* "quit" (trimmed, case-insensitive), which ends the loop; no line makes an
\* exception leave the loop, and at the prompt the process only reads.
C7_OnlyQuitEndsLoop ==
    [][/\ pc = "read" =>
            pc' = IF lower(strip(line)) = QUIT_WORD THEN "done" ELSE "prompt"
       /\ pc = "prompt" => pc' \in {"prompt", "read"}
       /\ pc = "done" => pc' = "done"]_vars

\* a line with an unknown note was analyzed, the error caught, and the process
\* is at the prompt again
C7_Witness ==
    /\ pc = "prompt"
    /\ ret # NoCall
    /\ ret.exc = "ValueError"
    /\ printed.kind = "error"

\* C8 as stated: in every reachable state of the loop the debug level is an
\* integer within 0..5.
C8_DebugInRange == DEBUG \in 0..5

\* C9: two calls of analyze with the same chord symbol, melody and key return
\* equal results (or raise the same error), whatever calls and debug commands
\* came before or between them.
C9_SameInputsSameResult ==
    (snapshot # <<>> /\ ret # NoCall /\ args = snapshot[1]) =>
      /\ ret.exc = snapshot[2].exc
      /\ ret.exc = "None" => ret.result = snapshot[2].result
      /\ ret.exc # "None" => ret.msg = snapshot[2].msg

\* the same line analyzed again at another debug level: the debug text
\* differs, and other lines were handled in between
C9_Witness ==
    /\ snapshot # <<>> /\ ret # NoCall
    /\ args = snapshot[1]
    /\ ret.exc = "None"
    /\ DEBUG >= 5 /\ snapshot[3] = 0
    /\ ret.log # snapshot[2].log

\* C10: MODE_CATALOG holds the 21 entries it was built with, in the same order
\* and with the same fields, after any sequence of lines.
C10_CatalogReadOnly ==
    /\ MODE_CATALOG = build_catalog
    /\ Len(MODE_CATALOG) = 21

\* a debug command and a successful analysis have both been handled
C10_Witness ==
    /\ pc = "prompt"
    /\ ret # NoCall /\ ret.exc = "None"
    /\ DEBUG # 0

\* a chord symbol has been parsed and its required tones derived
Parsed == pc = "parse_chord_symbol" /\ ret # NoCall /\ ret.exc = "None"

\* C11: for every successfully parsed chord the required core list is
\* non-empty, has offset 0 (the root) first, and consists of 3 or 4 pairwise
\* distinct offsets in 0..11.
C11_CoreTones ==
    Parsed =>
      LET core == ret.required[1] IN
      /\ core # <<>>
      /\ core[1] = 0
      /\ Len(core) \in {3, 4}
      /\ \A i \in 1..Len(core) : core[i] \in 0..11
      /\ \A i, j \in 1..Len(core) : i # j => core[i] # core[j]

\* a major chord whose seventh is asked for twice over (by the extension 7 and
\* by the text maj7): the core has it once
C11_Witness ==
    /\ Parsed
    /\ ret.chord.quality = "maj"
    /\ in_list(<<"7">>, ret.chord.exts)
    /\ contains(lower(ret.chord.symbol), <<"m","a","j","7">>)
    /\ ret.required[1] = <<0, 4, 7, 11>>

\* mode_match_rank has been called and has returned
Ranked == pc = "mode_match_rank" /\ ret # NoCall

\* C12: for every mode and every melody of n notes, melody_score is
\* non-negative and at most the sum of the position weights (n-i)/n over
\* i = 0..n-1, hence at most n; for an empty melody it is 0 and nothing is
\* divided by zero (the weights have denominator max(n, 1)).
C12_MelodyScoreBounds ==
    Ranked =>
      LET melody == args[4]
          len == Len(melody)
          ms == ret.match.melody_score
          \* the numerators n - i of the weights, over denominator den
          den == IF len = 0 THEN 1 ELSE len
          weight_nums == [j \in 1..len |-> len - (j - 1)]
      IN /\ ret.exc = "None"
         /\ ms[2] > 0
         /\ ms[1] >= 0
         /\ ms[1] * den <= sum_to(weight_nums, len) * ms[2]
         /\ ms[1] <= len * ms[2]
         /\ len = 0 => ms[1] = 0

\* a melody of several notes, all of them in the mode: melody_score is the
\* whole sum of the weights
C12_Witness ==
    /\ Ranked
    /\ Len(args[4]) >= 2
    /\ \A j \in 1..Len(args[4]) : ret.match.melody_hits[j]
    /\ 2 * ret.match.melody_score[1] = Len(args[4]) * (Len(args[4]) + 1)

\* C20: mode_match_rank returns missing_core / missing_extra equal to exactly
\* the required core / extra pitch classes absent from the mode's pitch-class
\* set, melody_hits[i] true exactly when melody note i is in that set,
\* melody_score = the sum of (n-i)/n over the hit positions, and
\* score = 4.0*(|core| - |missing_core|) - 10.0*|missing_core|
\*       + 1.5*(|extra| - |missing_extra|) - 2.5*|missing_extra| + melody_score
\* (|core|, |extra|: the numbers of required pitch classes).
C20_MatchFormula ==
    Ranked =>
      LET root == args[1]
          core == args[2]
          extra == args[3]
          melody == args[4]
          mode == args[5]
          m == ret.match
          in_mode(p) == \E i \in 1..Len(mode.intervals) : p = (root + mode.intervals[i]) % 12
          required(xs) == {p \in 0..11 : \E i \in 1..Len(xs) : p = (root + xs[i]) % 12}
          len == Len(melody)
          \* n * (n-i)/n, for the position j = i + 1, when it is a hit
          hit_num(j) == IF in_mode(melody[j]) THEN len - (j - 1) ELSE 0
          hits_num == sum_to([j \in 1..len |-> hit_num(j)], len)
          c == Cardinality(required(core))
          e == Cardinality(required(extra))
          mc == Cardinality(m.missing_core)
          me == Cardinality(m.missing_extra)
          ms == m.melody_score
      IN /\ m.mode = mode
         /\ m.missing_core = {p \in required(core) : ~in_mode(p)}
         /\ m.missing_extra = {p \in required(extra) : ~in_mode(p)}
         /\ Len(m.melody_hits) = len
         /\ \A j \in 1..len : m.melody_hits[j] <=> in_mode(melody[j])
         \* melody_score = hits_num / n
         /\ ms[2] > 0
         /\ IF len = 0 THEN ms[1] = 0 ELSE ms[1] * len = hits_num * ms[2]
         \* 2 * score = 8(c - mc) - 20 mc + 3(e - me) - 5 me + 2 * melody_score
         /\ m.score[2] > 0
         /\ 2 * m.score[1] * ms[2] =
              m.score[2] * ((8 * (c - mc) - 20 * mc + 3 * (e - me) - 5 * me) * ms[2]
                            + 2 * ms[1])

\* a call in which a core tone and an extra tone are missing from the mode and
\* the melody has a hit after a miss
C20_Witness ==
    /\ Ranked
    /\ ret.match.missing_core # {}
    /\ ret.match.missing_extra # {}
    /\ Len(args[4]) >= 2
    /\ ~ret.match.melody_hits[1]
    /\ ret.match.melody_hits[2]

EnharmonicPairs ==
    {<< <<"C","#">>, <<"D","b">> >>, << <<"D","#">>, <<"E","b">> >>,
     << <<"F","#">>, <<"G","b">> >>, << <<"G","#">>, <<"A","b">> >>,
     << <<"A","#">>, <<"B","b">> >>, << <<"B","#">>, <<"C">> >>,
     << <<"C","b">>, <<"B">> >>, << <<"E","#">>, <<"F">> >>,
     << <<"F","b">>, <<"E">> >>}

\* C13 as stated: the note table has 17 entries, and note_to_pc maps the two
\* spellings of every enharmonic pair of it to the same pitch class in 0..11:
\* C#/Db, D#/Eb, F#/Gb, G#/Ab, A#/Bb, and also B#/C, Cb/B, E#/F, Fb/E.
C13_EnharmonicPairsOf17 ==
    \A p \in EnharmonicPairs :
      (pc = "note_to_pc" /\ ret # NoCall /\ args = p) =>
        /\ Cardinality(DOMAIN NOTE_TO_PC) = 17
        /\ ret.pcs[1].exc = "None"
        /\ ret.pcs[2].exc = "None"
        /\ ret.pcs[1].val = ret.pcs[2].val
        /\ ret.pcs[1].val \in 0..11

\* C13 amended: the note table has 21 entries (7 naturals, 5 sharps, 5 flats,
\* and B#, Cb, E#, Fb), and note_to_pc maps the two spellings of every
\* enharmonic pair of it to the same pitch class in 0..11: the nine pairs
\* above.
C13_EnharmonicPairs ==
    \A p \in EnharmonicPairs :
      (pc = "note_to_pc" /\ ret # NoCall /\ args = p) =>
        /\ Cardinality(DOMAIN NOTE_TO_PC) = 21
        /\ ret.pcs[1].exc = "None"
        /\ ret.pcs[2].exc = "None"
        /\ ret.pcs[1].val = ret.pcs[2].val
        /\ ret.pcs[1].val \in 0..11

\* B# and C have been looked up: both are pitch class 0
C13_Witness ==
    /\ pc = "note_to_pc" /\ ret # NoCall
    /\ args = << <<"B","#">>, <<"C">> >>
    /\ ret.pcs[1] = [exc |-> "None", val |-> 0]
    /\ ret.pcs[2] = [exc |-> "None", val |-> 0]

\* C14: normalize_note is idempotent (normalizing a normalized name gives the
\* same string, for every string), and for every name note_to_pc accepts,
\* note_to_pc of the normalized name is note_to_pc of the name.
C14_NormalizeIdempotent ==
    /\ (pc = "note_to_pc" /\ Len(snapshot) = 2) =>
          snapshot[2].name = snapshot[1].name
    /\ (pc = "note_to_pc" /\ Len(snapshot) >= 1 /\ ret.pcs[1].exc = "None") =>
          snapshot[1].lookup = ret.pcs[1]

\* a name with surrounding blanks, a lower-case letter and the flat sign has
\* been normalized twice, and names a pitch class
C14_Witness ==
    /\ pc = "note_to_pc" /\ Len(snapshot) = 2
    /\ args[1] = <<" ", "e", FLAT_SIGN>>
    /\ snapshot[2].name = <<"E", "b">>
    /\ ret.pcs[1] = [exc |-> "None", val |-> 3]

\* the suffix of the chord symbol sym: what follows the root, as typed
suffix_of(sym) == split_root(replace_accidentals(strip(sym)))[2]

\* C15 as stated: the quality is decided by the first matching rule on the
\* lower-cased suffix: (1) it contains maj, ma7, maj7 or the delta symbol:
\* major; (2) else it starts with m or contains min: minor; (3) else it
\* contains any of 7, 9, 11, 13: dominant; (4) else major.  A suffix that
\* matches rule 1 is never classified dominant or minor.
C15_QualityFirstRule ==
    Parsed =>
      LET r == lower(suffix_of(args[1]))
          rule1 == \E x \in {<<"m","a","j">>, <<"m","a","7">>, <<"m","a","j","7">>,
                              <<DELTA_SIGN>>} : contains(r, x)
          rule2 == startswith(r, <<"m">>) \/ contains(r, <<"m","i","n">>)
          rule3 == \E x \in {<<"7">>, <<"9">>, <<"1","1">>, <<"1","3">>} : contains(r, x)
      IN /\ ret.chord.quality =
              IF rule1 THEN "maj" ELSE IF rule2 THEN "min"
              ELSE IF rule3 THEN "dom" ELSE "maj"
         /\ rule1 => ret.chord.quality \notin {"dom", "min"}

\* C16 as stated: a symbol root + "M7" is parsed as a major-seventh chord
\* (quality major, core [0,4,7,11]), like root + "maj7", and root + "m7" is
\* minor.
C16_CapitalMIsMajorSeventh ==
    Parsed =>
      /\ suffix_of(args[1]) \in {<<"M","7">>, <<"m","a","j","7">>} =>
            /\ ret.chord.quality = "maj"
            /\ ret.required[1] = <<0, 4, 7, 11>>
      /\ suffix_of(args[1]) = <<"m","7">> =>
            /\ ret.chord.quality = "min"
            /\ ret.required[1] = <<0, 3, 7, 10>>

\* the melody segment of a line typed at the prompt (what follows the first ':')
melody_segment(ln) == SubSeq(ln, find_char(ln, ":") + 1, Len(ln))

\* C17 as stated: for a line `<chord>: <notes>` parse_cli_line returns as notes
\* the non-empty tokens of the melody segment separated by commas or by
\* whitespace, in input order; no returned note contains a comma or
\* whitespace, also when the segment mixes both separators.
C17_NotesSplitOnCommasAndBlanks ==
    (pc \in {"prompt", "crashed"} /\ args # NoArgs) =>
      LET seg == melody_segment(strip(line))
          blanked == [i \in 1..Len(seg) |-> IF seg[i] = "," THEN " " ELSE seg[i]]
          notes == args[2]
      IN /\ notes = split_ws(blanked)
         /\ \A i \in 1..Len(notes) :
               \A k \in 1..Len(notes[i]) : notes[i][k] # "," /\ ~isspace(notes[i][k])

\* C18 as stated: in ai-gen.py every note name that is a key of NOTE_TO_PC,
\* the flat spellings Db, Eb, Gb, Ab, Bb, Cb, Fb included, is accepted by
\* note_to_pc and mapped to the table's pitch class, and the documented
\* example `Eb7: D, E, G, B` is analysed without an unknown-note error.
C18_AigenFlatsAccepted ==
    (pc = "ai-gen.py" /\ ret # NoCall) =>
      /\ (Len(args) = 1 /\ args[1] \in DOMAIN aigen_NOTE_TO_PC) =>
            ret = [exc |-> "None", val |-> aigen_NOTE_TO_PC[args[1]]]
      /\ args = << <<"E","b","7">>, <<"G">>, << <<"D">>, <<"E">>, <<"G">>, <<"B">> >> >> =>
            ret.exc = "None"

\* C19 as stated: get_major_scale() called with its default length returns
\* exactly the seven notes of the major scale of the root, in ascending order
\* and without the root an octave higher; for from_note_int(0) these are
\* A, B, C#, D, E, F#, G#.
C19_SevenNotes ==
    (pc = "major.py" /\ ret # NoCall /\ args[3] = DEFAULT_LENGTH) =>
      /\ Len(ret.scale) = 7
      /\ \A i \in 1..7 :
            (ret.scale[i].code - ret.scale[1].code) % 12 = MAJOR_INTERVALS[i]
      /\ \A i \in 2..Len(ret.scale) : ret.names[i] # ret.names[1]
      /\ (args[1] = 0 /\ args[2]) =>
            ret.names = << <<"A">>, <<"B">>, <<"C","#">>, <<"D">>, <<"E">>,
                           <<"F","#">>, <<"G","#">> >>

\* C21 as stated: a suffix that contains maj, ma7, maj7 or the delta symbol
\* implies a major seventh: the chord is major and its core is [0,4,7,11],
\* also when no digit 7 is written (suffix "maj", "maj9", or the delta symbol
\* alone).
C21_MajorMarkerImpliesSeventh ==
    Parsed =>
      LET r == lower(suffix_of(args[1]))
          marker == \E x \in {<<"m","a","j">>, <<"m","a","7">>, <<"m","a","j","7">>,
                               <<DELTA_SIGN>>} : contains(r, x)
      IN marker => /\ ret.chord.quality = "maj"
                   /\ ret.required[1] = <<0, 4, 7, 11>>

\* the number num is written in r at a place where it is not part of one of
\* the alterations alts (so it is written unaltered)
written_unaltered(r, num, alts) ==
    \E i \in 1..(Len(r) - Len(num) + 1) :
       /\ SubSeq(r, i, i + Len(num) - 1) = num
       /\ \A a \in alts : ~(i > 1 /\ SubSeq(r, i - 1, i + Len(num) - 1) = a)

\* C27 as stated: an alteration overrides the plain extension of the same
\* number: when the suffix contains b9 or #9 (resp. #11, b13) and that number
\* is not also written unaltered, extra contains the altered offset 1 or 3
\* (resp. 6, 8) and not the plain offset 2 (resp. 5, 9).
C27_AlterationOverridesExtension ==
    Parsed =>
      LET r == lower(suffix_of(args[1]))
          extra == ret.required[2]
          b9 == <<"b","9">>
          s9 == <<"#","9">>
          s11 == <<"#","1","1">>
          b13 == <<"b","1","3">>
      IN /\ (contains(r, b9) /\ ~written_unaltered(r, <<"9">>, {b9, s9}))
              => in_list(1, extra) /\ ~in_list(2, extra)
         /\ (contains(r, s9) /\ ~written_unaltered(r, <<"9">>, {b9, s9}))
              => in_list(3, extra) /\ ~in_list(2, extra)
         /\ (contains(r, s11) /\ ~written_unaltered(r, <<"1","1">>, {s11}))
              => in_list(6, extra) /\ ~in_list(5, extra)
         /\ (contains(r, b13) /\ ~written_unaltered(r, <<"1","3">>, {b13}))
              => in_list(8, extra) /\ ~in_list(9, extra)

\* C22: for every chord root and global key of the note table,
\* degree_in_global_major returns an integer 0..7: the 1-based position of the
\* root's pitch class in the key's major scale (pattern 0,2,4,5,7,9,11 from
\* the key), or 0 when it is not in the scale.  roman_for_degree returns
\* "N/A" exactly for degree 0 and otherwise the numeral I..VII of the degree,
\* lower-cased exactly when the quality is minor.
C22_DegreeAndRoman ==
    LET numerals == <<(<<"I">>), <<"I","I">>, <<"I","I","I">>, <<"I","V">>, <<"V">>,
                      <<"V","I">>, <<"V","I","I">>>>
        small == <<(<<"i">>), <<"i","i">>, <<"i","i","i">>, <<"i","v">>, <<"v">>,
                   <<"v","i">>, <<"v","i","i">>>>
        pattern == <<0, 2, 4, 5, 7, 9, 11>>
        r_pc == NOTE_TO_PC[args[1]]
        k_pc == NOTE_TO_PC[args[2]]
        at(d) == (k_pc + pattern[d]) % 12 = r_pc
    IN
    /\ (pc = "roman_for_degree") =>
          /\ ret.degree \in 0..7
          /\ ret.degree # 0 => at(ret.degree)
          /\ ret.degree = 0 => \A d \in 1..7 : ~at(d)
    /\ (pc = "roman_for_degree" /\ snapshot # <<>>) =>
          /\ (snapshot[1] = <<"N","/","A">>) <=> (ret.degree = 0)
          /\ ret.degree # 0 =>
                snapshot[1] = IF args[3] = "min" THEN small[ret.degree]
                              ELSE numerals[ret.degree]

\* Dm7 in the key of C: degree 2, numeral "ii"
C22_Witness ==
    /\ pc = "roman_for_degree"
    /\ args = <<(<<"D">>), <<"C">>, "min">>
    /\ ret.degree = 2
    /\ snapshot = <<(<<"i","i">>)>>

\* the position j (counted from 1) of melody m belongs to a window of three
\* consecutive notes whose two hops are equal modulo 12 and are a step
in_step_window(m, j) ==
    \E i \in 2..(Len(m) - 1) :
       /\ j \in {i - 1, i, i + 1}
       /\ (m[i] - m[i - 1]) % 12 = (m[i + 1] - m[i]) % 12
       /\ (m[i] - m[i - 1]) % 12 \in {1, 2, 10, 11}

\* C23: in both variants a melody index is labelled scale_line exactly when it
\* belongs to some window of three consecutive notes whose two hops are equal
\* modulo 12 and are one of 1, 2, 10, 11; hops of different size or opposite
\* direction never produce the label, and a melody of fewer than 3 notes has
\* no scale_line label.
C23_ScaleLine ==
    /\ (pc = "analyze_melody_functions" /\ ret # NoCall) =>
          /\ \A j \in 1..Len(args[1]) :
                in_list("scale_line", ret.functions[j]) <=> in_step_window(args[1], j)
          /\ Len(args[1]) < 3 =>
                \A j \in 1..Len(args[1]) : ~in_list("scale_line", ret.functions[j])
    /\ (pc = "analyze_melody_functions" /\ snapshot # <<>>) =>
          /\ \A j \in 1..Len(args[1]) :
                in_list("scale_line", snapshot[1][j]) <=> in_step_window(args[1], j)
          /\ Len(args[1]) < 3 =>
                \A j \in 1..Len(args[1]) : ~in_list("scale_line", snapshot[1][j])

\* G F# E D: the hops 11, 10, 10 differ in the first window and agree in the
\* second, so the last three notes are a scale line and the first is not
C23_Witness ==
    /\ pc = "analyze_melody_functions"
    /\ args[1] = <<7, 6, 4, 2>>
    /\ ret # NoCall
    /\ snapshot # <<>>
    /\ ~in_list("scale_line", ret.functions[1])
    /\ \A j \in 2..4 : in_list("scale_line", ret.functions[j])
    /\ ~in_list("scale_line", snapshot[1][1])
    /\ \A j \in 2..4 : in_list("scale_line", snapshot[1][j])

\* C24: in the second variant index i gets a passing label exactly when it is
\* interior, the notes at i-1 and i+1 are chord tones, the note at i is not,
\* and both hops are one of 1, 2, 10, 11; the label is chromatic_passing_tone
\* if either hop is 1 or 11 and passing_tone otherwise, never both; the first
\* and the last index never get a passing or neighbor label.
C24_PassingTone ==
    (pc = "analyze_melody_functions" /\ ret # NoCall) =>
      LET m == args[1]
          n == Len(m)
          offsets == IF args[3] = "maj" THEN {0, 4, 7, 11}
                     ELSE IF args[3] = "min" THEN {0, 3, 7, 10}
                     ELSE {0, 4, 7, 10}
          is_chord_tone(x) == \E s \in offsets : (args[2] + s) % 12 = x
          up(j) == (m[j] - m[j - 1]) % 12
          down(j) == (m[j + 1] - m[j]) % 12
          bridge(j) == /\ 1 < j /\ j < n
                       /\ is_chord_tone(m[j - 1]) /\ is_chord_tone(m[j + 1])
                       /\ ~is_chord_tone(m[j])
                       /\ up(j) \in {1, 2, 10, 11} /\ down(j) \in {1, 2, 10, 11}
          semitone(j) == up(j) \in {1, 11} \/ down(j) \in {1, 11}
          has(j, lab) == in_list(lab, ret.functions[j])
      IN /\ \A j \in 1..n :
              /\ has(j, "chromatic_passing_tone") <=> (bridge(j) /\ semitone(j))
              /\ has(j, "passing_tone") <=> (bridge(j) /\ ~semitone(j))
              /\ ~(has(j, "chromatic_passing_tone") /\ has(j, "passing_tone"))
         /\ \A j \in {1, n} \cap 1..n :
              \A lab \in {"passing_tone", "chromatic_passing_tone",
                          "upper_neighbor", "lower_neighbor"} : ~has(j, lab)

\* G F# E over C major: F# bridges the chord tones G and E by a falling
\* semitone and a falling whole tone and is a chromatic passing tone
C24_Witness ==
    /\ pc = "analyze_melody_functions"
    /\ args = <<(<<7, 6, 4>>), 0, "maj">>
    /\ ret # NoCall
    /\ in_list("chromatic_passing_tone", ret.functions[2])
    /\ ~in_list("passing_tone", ret.functions[2])

\* C25 as stated: the functions part of every analysis result has exactly one
\* entry per melody index 0..n-1, and each entry is a set of labels: no label
\* (in particular scale_line, which overlapping windows can produce for the
\* same index) occurs more than once for one index.
C25_FunctionsAreSets ==
    Returned =>
      LET functions == ret.result.functions IN
      /\ DOMAIN functions = 1..Len(args[2])
      /\ \A j \in 1..Len(functions) :
            \A a, b \in 1..Len(functions[j]) :
               a # b => functions[j][a] # functions[j][b]

\* the interval pattern of the mode that starts on degree k + 1 of parent
rotation_of(parent, k) ==
    [i \in 1..Len(parent) |->
        (parent[((k + i - 1) % Len(parent)) + 1] - parent[k + 1]) % 12]

\* the ranks of the catalog are those of 3 families of 7 modes, no pair of
\* ranks is used twice, and every pattern is 7 ascending offsets from 0
C26_RanksAndPatterns ==
    LET families == <<"major", "melodic_minor", "harmonic_minor">> IN
    /\ Len(MODE_CATALOG) = 21
    /\ \A f \in 0..2 :
          Cardinality({i \in 1..Len(MODE_CATALOG) :
                          MODE_CATALOG[i].family = families[f + 1]}) = 7
    /\ \A i \in 1..Len(MODE_CATALOG) :
          /\ MODE_CATALOG[i].family_rank \in 0..2
          /\ MODE_CATALOG[i].family = families[MODE_CATALOG[i].family_rank + 1]
          /\ MODE_CATALOG[i].mode_rank \in 0..6
          /\ Len(MODE_CATALOG[i].intervals) = 7
          /\ MODE_CATALOG[i].intervals[1] = 0
          /\ \A k \in 1..7 : MODE_CATALOG[i].intervals[k] \in 0..11
          /\ \A k \in 1..6 :
                MODE_CATALOG[i].intervals[k] < MODE_CATALOG[i].intervals[k + 1]
    /\ \A i, j \in 1..Len(MODE_CATALOG) :
          (i # j) => \/ MODE_CATALOG[i].family_rank # MODE_CATALOG[j].family_rank
                     \/ MODE_CATALOG[i].mode_rank # MODE_CATALOG[j].mode_rank

\* C26 as stated: the catalog holds 21 modes, 7 per family, with family_rank
\* 0..2 and mode_rank 0..6 and no two entries sharing both ranks; every
\* interval pattern is 7 strictly ascending offsets in 0..11 starting at 0;
\* and the mode with mode_rank k is the rotation of its family's rank-0
\* parent started on the parent's (k+1)-th degree, the rotation that
\* rotate_intervals of the first variant applies to the major scale.
C26_CatalogOfRotations ==
    /\ C26_RanksAndPatterns
    /\ \A i, p \in 1..Len(MODE_CATALOG) :
          (/\ MODE_CATALOG[p].family_rank = MODE_CATALOG[i].family_rank
           /\ MODE_CATALOG[p].mode_rank = 0)
          => MODE_CATALOG[i].intervals =
                rotation_of(MODE_CATALOG[p].intervals, MODE_CATALOG[i].mode_rank)
    /\ \A i \in 1..Len(MODE_CATALOG) :
          MODE_CATALOG[i].family = "major"
          => MODE_CATALOG[i].intervals =
                aigen_rotate_intervals(MODE_CATALOG[i].mode_rank + 1)

\* C28 as stated: note codes count semitones from A4 = 0 (A#4 = 1, B4 = 2,
\* C5 = 3): for every integer c, Note.from_int(c).code = c; for every valid
\* name and octave o, Note(name, o).get_octave() = o; and adding an integer k
\* to a note changes its code by exactly k.
C28_NoteCodes ==
    /\ (pc = "Note.from_int" /\ ret # NoCall) => ret.note.code = args[1]
    /\ (pc = "Note" /\ ret # NoCall /\ ret.exc = "None") =>
          /\ (args[1] = <<"A">> /\ args[2] = 4) => ret.note.code = 0
          /\ (args[1] = <<"A","#">> /\ args[2] = 4) => ret.note.code = 1
          /\ (args[1] = <<"B">> /\ args[2] = 4) => ret.note.code = 2
          /\ (args[1] = <<"C">> /\ args[2] = 5) => ret.note.code = 3
    /\ (pc = "Note" /\ Len(snapshot) >= 1) => snapshot[1] = args[2]
    /\ (pc \in {"Note", "Note.from_int"} /\ Len(snapshot) = 2) =>
          snapshot[2].code = ret.note.code + args[3]

====
